---- MODULE Spec2Model ----
(***************************************************************************)
(* A model of the magnet-code agent runtime:                               *)
(*   - the tool invocation pipeline (ToolRegistry.invoke) with its hook    *)
(*     system and approval collaborators,                                  *)
(*   - the retry loop of the provider client (LLMClient.chat_completion).  *)
(* Python exceptions are modelled as outcomes: an operator that models a   *)
(* coroutine returns a record saying whether the coroutine returned or     *)
(* raised, and which collaborator calls it made on the way.                *)
(***************************************************************************)
EXTENDS Integers, Sequences, FiniteSets, TLC

(***************************************************************************)
(* Bounds of the model                                                     *)
(***************************************************************************)
\* largest number of stream events one attempt of a request emits before it
\* ends or fails
MaxStreamEvents == 2
\* largest number of chunks of one streamed response
MaxChunks == 3
\* largest number of stream events that the agent loop takes from one request
MaxAgentStream == 3
\* largest number of entries that the add_* calls put into one log
MaxMessages == 4
\* largest number of actions recorded in one LoopDetector
MaxRecorded == 6

(***************************************************************************)
(* Values                                                                  *)
(***************************************************************************)
None == "None"

\* the tool classes of the model: three built-in tools, one tool discovered
\* from a .magnet/tools directory, one tool proxied from an MCP server
BuiltinNames == {"read_file", "write_file", "shell"}
DiscoveredNames == {"deploy"}
McpNames == {"mcp_search"}
ToolNames == BuiltinNames \cup DiscoveredNames \cup McpNames
\* the names a model may ask for: every tool class and one that names nothing
InvokeNames == ToolNames \cup {"nope"}

\* ToolKind of each tool class
kind(tool) ==
    CASE tool = "read_file" -> "read"
      [] tool = "write_file" -> "write"
      [] tool = "shell" -> "shell"
      [] tool = "deploy" -> "write"
      [] tool = "mcp_search" -> "mcp"

\* whether the tool's schema is a pydantic model (else a dict, as MCP tools)
schema_is_model(tool) == tool \notin McpNames

\* the parameter maps of the model: a map is represented by the pydantic
\* errors (field, message) that the schema of a built-in tool finds in it,
\* in the order pydantic reports them
ParamsSet ==
    { <<>>,
      << [loc |-> "command", msg |-> "Field required"] >>,
      << [loc |-> "command", msg |-> "Field required"],
         [loc |-> "timeout", msg |-> "Input should be a valid integer"] >> }

RECURSIVE Join(_, _)
\* sep.join(strs)
Join(sep, strs) ==
    IF strs = <<>> THEN ""
    ELSE IF Len(strs) = 1 THEN strs[1]
    ELSE strs[1] \o sep \o Join(sep, Tail(strs))

(***************************************************************************)
(* ToolResult                                                              *)
(***************************************************************************)
EmptyDict == [k \in {} |-> k]

error_result(error, metadata) ==
    [success |-> FALSE, output |-> "", error |-> error, metadata |-> metadata]

success_result(output) ==
    [success |-> TRUE, output |-> output, error |-> None, metadata |-> EmptyDict]

\* stands for "no ToolResult" where a record is needed
NoResult == [success |-> FALSE, output |-> "", error |-> "<no result>",
             metadata |-> EmptyDict]

(***************************************************************************)
(* Tool                                                                    *)
(***************************************************************************)
\* Tool.validate_params: one message per pydantic error for a model schema,
\* no message at all for a dict schema
validate_params(tool, params) ==
    IF schema_is_model(tool)
    THEN [i \in 1..Len(params) |->
             "Parameter '" \o params[i].loc \o "': " \o params[i].msg]
    ELSE <<>>

\* Tool.is_mutating
is_mutating(tool) == kind(tool) \in {"write", "shell", "network", "memory"}

\* tool.get_confirmation(invocation) as the registry calls it. The value is
\* None, a confirmation, or the name of the exception raised.
\*   "bare": the ToolConfirmation of tools/base.py (tool_name, params,
\*           description)
\*   "full": an object that also has affected_paths, command, is_dangerous
\* custom is what the get_confirmation of a discovered tool does.
get_confirmation(tool, custom) ==
    CASE tool = "shell" -> "TypeError"
      [] tool \in McpNames -> "TypeError"
      [] tool \in DiscoveredNames -> custom
      [] OTHER -> IF ~is_mutating(tool) THEN None ELSE "bare"

\* what a discovered tool's get_confirmation may do
CustomConfirmations == {None, "full", "ToolError"}

\* the outcomes of tool.execute(invocation): a successful result, a failed
\* result, or an exception
ExecOutcomes(tool) ==
    IF tool \in McpNames THEN {"NameError"}
    ELSE {"ok", "fail", "ToolError"}

\* str(e) of the exception a tool's execute raises
ExcText(e) ==
    IF e = "NameError" THEN "name 'e' is not defined" ELSE "boom"

execute_result(out) ==
    IF out = "ok" THEN success_result("done")
    ELSE error_result("old_string not found", EmptyDict)

(***************************************************************************)
(* HookSystem                                                              *)
(***************************************************************************)
\* the configurations of the model: hooks_enabled, the configured hooks and
\* allowed_tools ({} when it is None); a hook has a command or, without one,
\* a script
Hook(trigger, has_command, enabled) ==
    [trigger |-> trigger, has_command |-> has_command, enabled |-> enabled]

Configs ==
    { [hooks_enabled |-> FALSE, allowed_tools |-> {},
       hooks |-> << Hook("after_tool", FALSE, TRUE) >>],
      [hooks_enabled |-> TRUE, allowed_tools |-> {"read_file"},
       hooks |-> <<>>],
      [hooks_enabled |-> TRUE, allowed_tools |-> {},
       hooks |-> << Hook("after_tool", TRUE, TRUE) >>],
      [hooks_enabled |-> TRUE, allowed_tools |-> {"read_file", "deploy"},
       hooks |-> << Hook("after_tool", FALSE, TRUE) >>],
      [hooks_enabled |-> TRUE, allowed_tools |-> {},
       hooks |-> << Hook("before_tool", FALSE, TRUE) >>],
      [hooks_enabled |-> TRUE, allowed_tools |-> {},
       hooks |-> << Hook("before_tool", TRUE, TRUE),
                    Hook("after_tool", FALSE, FALSE) >>] }

IsEnabled(hook) == hook.enabled

\* HookSystem.__init__: the enabled hooks when hooks are enabled
HookSystemInit(config) ==
    IF config.hooks_enabled THEN SelectSeq(config.hooks, IsEnabled) ELSE <<>>

\* HookSystem._run_hook: "ok" or the exception it raises. A command runs
\* under _run_command, which catches every exception; a script is written to
\* a temporary file that is deleted when its with-block ends, before chmod.
run_hook(hook) ==
    IF hook.has_command THEN "ok" ELSE "FileNotFoundError"

\* HookSystem.trigger_before_tool / trigger_after_tool: runs the hooks of the
\* trigger in order, the first exception ends it
trigger(hs, trig) ==
    LET failing == {i \in 1..Len(hs) :
                      hs[i].trigger = trig /\ run_hook(hs[i]) # "ok"}
    IN IF failing = {} THEN "ok"
       ELSE run_hook(hs[CHOOSE i \in failing : \A j \in failing : i <= j])

(***************************************************************************)
(* State                                                                   *)
(***************************************************************************)
VARIABLES
    tools,        \* ToolRegistry._tools: the names registered
    mcp_tools,    \* ToolRegistry._mcp_tools
    hooks,        \* HookSystem.hooks
    inv,          \* the last call of ToolRegistry.invoke and how it ended
    allowed_tools, \* ToolRegistry.config.allowed_tools; {} when it is None
    cc_pc,        \* LLMClient.chat_completion: "idle", "attempt" (inside the
                  \* try block of an attempt), "done" (returned), "raised"
    stream,       \* the stream argument of the call
    attempt,      \* the loop variable of the retry loop
    emitted,      \* events the current attempt has yielded so far
    events,       \* the events the call has yielded to its consumer
    sleeps,       \* the arguments of the asyncio.sleep calls of the call
    attempts,     \* how each finished attempt of the call ended
    sr,           \* one response of the provider as LLMClient handles it:
                  \* the locals of _stream_response / _non_stream_response
                  \* and the events yielded so far
    ag,           \* one Agent.run: its position, its locals and the events
                  \* it has yielded to the caller
    ctx,          \* ContextManager: _messages, and what its calls so far
                  \* were given and returned
    ld,           \* LoopDetector: _history and the last check_for_loop
    sub,          \* one SubAgentTool.execute: its position and its locals
    sh,           \* one ShellTool.execute: its position, the processes of
                  \* the command's group that are alive, and how it ended
    mcp           \* MCPManager: the configured servers, _clients,
                  \* _initialized and the position of initialize

pipeline_vars == <<tools, mcp_tools, hooks, inv, allowed_tools>>
client_vars == <<cc_pc, stream, attempt, emitted, events, sleeps, attempts>>
vars == <<tools, mcp_tools, hooks, inv, allowed_tools,
          cc_pc, stream, attempt, emitted, events, sleeps, attempts, sr, ag,
          ctx, ld, sub, sh, mcp>>

\* what the actions of one component leave alone
outside_pipeline == <<client_vars, sr, ag, ctx, ld, sub, sh, mcp>>
outside_client == <<pipeline_vars, sr, ag, ctx, ld, sub, sh, mcp>>
outside_response == <<pipeline_vars, client_vars, ag, ctx, ld, sub, sh, mcp>>
outside_agent == <<pipeline_vars, client_vars, sr, ctx, ld, sub, sh, mcp>>
outside_context == <<pipeline_vars, client_vars, sr, ag, ld, sub, sh, mcp>>
outside_detector == <<pipeline_vars, client_vars, sr, ag, ctx, sub, sh, mcp>>
outside_subagent == <<pipeline_vars, client_vars, sr, ag, ctx, ld, sh, mcp>>
outside_shell == <<pipeline_vars, client_vars, sr, ag, ctx, ld, sub, mcp>>
\* register_tools of the MCP manager writes the MCP table of the registry
outside_mcp == <<tools, hooks, inv, allowed_tools, client_vars, sr, ag, ctx,
                 ld, sub, sh>>


\* the state before the first call of invoke
NoInvoke ==
    [name |-> None, params |-> <<>>, hook_system |-> None,
     approval_manager |-> None, outcome |-> "none", result |-> NoResult,
     exc |-> None, calls |-> <<>>]

(***************************************************************************)
(* ToolRegistry                                                            *)
(***************************************************************************)
\* ToolRegistry.get: the built-in table first, then the MCP table
get(name) ==
    IF name \in tools THEN name
    ELSE IF name \in mcp_tools THEN name
    ELSE None

\* ToolRegistry.get_tools under a configuration: the tools of both tables,
\* filtered by config.allowed_tools when that is a non-empty list (the empty
\* set stands for None and for [])
get_tools(config) ==
    LET all == tools \cup mcp_tools
    IN IF config.allowed_tools # {}
       THEN {t \in all : t \in config.allowed_tools}
       ELSE all

\* one collaborator call made by invoke: the operation, the value it gave
\* (or the exception it raised) and, for the after-tool hook, the result
\* handed to it
Call(op, val, result) == [op |-> op, val |-> val, result |-> result]

\* invoke returned result / invoke raised exc
Returned(result, calls) ==
    [outcome |-> "returned", result |-> result, exc |-> None, calls |-> calls]
Raised(exc, calls) ==
    [outcome |-> "raised", result |-> NoResult, exc |-> exc, calls |-> calls]

\* the two lines that end an error path of invoke:
\*   await hook_system.trigger_after_tool(name, params, result)
\*   return result
\* hook_system is None when the caller passed no hook system.
after_tool_then_return(hook_system, result, calls) ==
    IF hook_system = None THEN Raised("AttributeError", calls)
    ELSE LET c == Append(calls, Call("trigger_after_tool", trigger(hooks, "after_tool"), result))
         IN IF trigger(hooks, "after_tool") = "ok"
            THEN Returned(result, c)
            ELSE Raised(trigger(hooks, "after_tool"), c)

\* the try block around tool.execute and the final return
execute_stage(name, hook_system, env, calls) ==
    LET c == Append(calls, Call("execute", env.exec, NoResult))
    IN IF env.exec \in {"ok", "fail"}
       THEN Returned(execute_result(env.exec), c)
       ELSE after_tool_then_return(
                hook_system,
                error_result("Internal error: " \o ExcText(env.exec),
                             [tool_name |-> name]),
                c)

BoolText(b) == IF b THEN "True" ELSE "False"

\* the approval steps, taken when an approval manager was passed
approval_stage(name, tool, hook_system, approval_manager, env, calls) ==
    IF approval_manager = None
    THEN execute_stage(name, hook_system, env, calls)
    ELSE
    LET confirmation == get_confirmation(tool, env.custom)
        c1 == Append(calls, Call("get_confirmation", confirmation, NoResult))
        c2 == Append(c1, Call("check_approval", env.decision, NoResult))
        c3 == Append(c2, Call("request_confirmation", BoolText(env.approved), NoResult))
    IN CASE confirmation = None -> execute_stage(name, hook_system, env, c1)
         [] confirmation = "bare" -> Raised("AttributeError", c1)
         [] confirmation = "full" ->
              IF env.decision = "REJECTED"
              THEN after_tool_then_return(
                       hook_system,
                       error_result("Operation rejected by safety policy", EmptyDict),
                       c2)
              ELSE IF env.decision = "NEEDS_CONFIRMATION"
              THEN IF ~env.approved
                   THEN after_tool_then_return(
                            hook_system,
                            error_result("User rejected the operation", EmptyDict),
                            c3)
                   ELSE execute_stage(name, hook_system, env, c3)
              ELSE execute_stage(name, hook_system, env, c2)
         [] OTHER -> Raised(confirmation, c1)

\* ToolRegistry.invoke(name, params, cwd, hook_system, approval_manager);
\* env holds what the collaborators answer when they are asked
invoke(name, params, hook_system, approval_manager, env) ==
    LET tool == get(name)
        c0 == << Call("get", tool, NoResult) >>
        validation_errors == validate_params(tool, params)
        c1 == Append(c0, Call("validate_params", Join("; ", validation_errors), NoResult))
        c2 == Append(c1, Call("trigger_before_tool", trigger(hooks, "before_tool"), NoResult))
    IN IF tool = None
       THEN after_tool_then_return(
                hook_system,
                error_result("Unknown tool: " \o name, [tool_name |-> name]),
                c0)
       ELSE IF validation_errors # <<>>
       THEN after_tool_then_return(
                hook_system,
                error_result("Invalid parameters: " \o Join("; ", validation_errors),
                             [tool_name |-> name,
                              validataion_errors |-> validation_errors]),
                c1)
       ELSE IF hook_system = None
       THEN Raised("AttributeError", c1)
       ELSE IF trigger(hooks, "before_tool") # "ok"
       THEN Raised(trigger(hooks, "before_tool"), c2)
       ELSE approval_stage(name, tool, hook_system, approval_manager, env, c2)

\* ApprovalManager.check_approval: the decisions of the approval collaborator
Decisions == {"REJECTED", "NEEDS_CONFIRMATION", "APPROVED"}

\* what the collaborators of one invoke may answer; only a discovered tool
\* produces a confirmation that reaches the approval collaborator
Envs(name) ==
    [custom : IF name \in DiscoveredNames THEN CustomConfirmations ELSE {None},
     decision : IF name \in DiscoveredNames THEN Decisions ELSE {"APPROVED"},
     approved : IF name \in DiscoveredNames THEN BOOLEAN ELSE {TRUE},
     exec : IF name \in ToolNames THEN ExecOutcomes(name) ELSE {"ok"}]

(***************************************************************************)
(* Actions of the tool pipeline                                            *)
(***************************************************************************)
register(tool) ==
    /\ tools' = tools \cup {tool}
    /\ UNCHANGED <<mcp_tools, hooks, inv, allowed_tools>>
    /\ UNCHANGED outside_pipeline

register_mcp_tool(tool) ==
    /\ mcp_tools' = mcp_tools \cup {tool}
    /\ UNCHANGED <<tools, hooks, inv, allowed_tools>>
    /\ UNCHANGED outside_pipeline

unregister(name) ==
    /\ name \in tools
    /\ tools' = tools \ {name}
    /\ UNCHANGED <<mcp_tools, hooks, inv, allowed_tools>>
    /\ UNCHANGED outside_pipeline

Invoke ==
    \E name \in InvokeNames, params \in ParamsSet,
       hook_system \in {None, "hook_system"},
       approval_manager \in {None, "approval_manager"} :
      \E env \in Envs(name) :
        LET r == invoke(name, params, hook_system, approval_manager, env)
        IN /\ inv' = [name |-> name, params |-> params,
                      hook_system |-> hook_system,
                      approval_manager |-> approval_manager,
                      outcome |-> r.outcome, result |-> r.result,
                      exc |-> r.exc, calls |-> r.calls]
           /\ UNCHANGED <<tools, mcp_tools, hooks, allowed_tools>>
           /\ UNCHANGED outside_pipeline

(***************************************************************************)
(* LLMClient.chat_completion                                               *)
(***************************************************************************)
\* LLMClient._max_retries
max_retries == 3

\* the exceptions an attempt may end with: the two transient classes, any
\* other provider error, and an exception that is no provider error
Transient == {"RateLimitError", "APIConnectionError"}
AttemptExceptions == Transient \cup {"APIError", "RuntimeError"}

StreamEvent(type, att, error) == [type |-> type, attempt |-> att, error |-> error]

\* a backoff that grows linearly instead of doubling
wait_time_linear(att) == 2 * att

\* wait_time = 2**attempt
wait_time(att) == 2 ^ att

\* whether the handler of a transient error sleeps and retries
may_retry(att) == att < max_retries

\* the text of the Error event of an exception class
error_text(exc) ==
    CASE exc = "RateLimitError" -> "Rate limit exceeded: "
      [] exc = "APIConnectionError" -> "Connection error: "
      [] OTHER -> "API error: "

\* the except clauses of the retry loop: what the handler of exc sleeps and
\* yields in attempt att
handler(exc, att) ==
    IF exc \in Transient
    THEN IF may_retry(att)
         THEN [sleep |-> << wait_time(att) >>, yield |-> <<>>]
         ELSE [sleep |-> <<>>,
               yield |-> << StreamEvent("ERROR", att, error_text(exc)) >>]
    ELSE [sleep |-> <<>>,
          yield |-> << StreamEvent("ERROR", att, error_text(exc)) >>]

\* the last value of range(self._max_retries + 1)
last_attempt(att) == att = max_retries

\* a call of chat_completion enters the retry loop
chat_completion(s) ==
    /\ cc_pc \in {"idle", "done", "raised"}
    /\ cc_pc' = "attempt"
    /\ stream' = s
    /\ attempt' = 0
    /\ emitted' = 0
    /\ events' = <<>>
    /\ sleeps' = <<>>
    /\ attempts' = <<>>
    /\ UNCHANGED outside_client

\* the attempt yields an event of _stream_response that is not its last
StreamYield ==
    /\ cc_pc = "attempt"
    /\ stream
    /\ emitted < MaxStreamEvents
    /\ events' = Append(events, StreamEvent("TEXT_DELTA", attempt, None))
    /\ emitted' = emitted + 1
    /\ UNCHANGED <<cc_pc, stream, attempt, sleeps, attempts>>
    /\ UNCHANGED outside_client

\* the attempt yields its MessageComplete event and chat_completion returns
AttemptReturns ==
    /\ cc_pc = "attempt"
    /\ events' = Append(events, StreamEvent("MESSAGE_COMPLETE", attempt, None))
    /\ attempts' = Append(attempts, [exc |-> "ok", emitted |-> emitted + 1])
    /\ emitted' = emitted + 1
    /\ cc_pc' = "done"
    /\ UNCHANGED <<stream, attempt, sleeps>>
    /\ UNCHANGED outside_client

\* the attempt raises exc, from the request or from the chunk iteration; the
\* handler runs and the loop goes on to its next iteration or ends
AttemptRaises(exc) ==
    /\ cc_pc = "attempt"
    /\ attempts' = Append(attempts, [exc |-> exc, emitted |-> emitted])
    /\ IF exc \in Transient \cup {"APIError"}
       THEN /\ sleeps' = sleeps \o handler(exc, attempt).sleep
            /\ events' = events \o handler(exc, attempt).yield
            /\ IF last_attempt(attempt)
               THEN /\ cc_pc' = "done"
                    /\ UNCHANGED <<attempt, emitted>>
               ELSE /\ cc_pc' = "attempt"
                    /\ attempt' = attempt + 1
                    /\ emitted' = 0
       ELSE /\ cc_pc' = "raised"
            /\ UNCHANGED <<attempt, emitted, events, sleeps>>
    /\ UNCHANGED stream
    /\ UNCHANGED outside_client

NextClient ==
    \/ \E s \in BOOLEAN : chat_completion(s)
    \/ StreamYield
    \/ AttemptReturns
    \/ \E exc \in AttemptExceptions : AttemptRaises(exc)

(***************************************************************************)
(* LLMClient._stream_response and LLMClient._non_stream_response           *)
(***************************************************************************)
\* the usage that _stream_response makes up for a chunk without usage
FakeUsage == "TokenUsage(100, 500, 700, 2000)"

\* a usage snapshot of the provider without prompt_tokens_details
UsageNoDetails == "usage without prompt_tokens_details"

\* Python truth of an optional string
Truthy(s) == s \notin {None, ""}

\* one element of delta.tool_calls: name and arguments are those of its
\* function, None when the fragment has none
ChoiceDelta(index, id, name, arguments) ==
    [index |-> index, id |-> id, name |-> name, arguments |-> arguments]

\* the fragments of the model: for index 0 the usual first fragment (id and
\* name, empty arguments), argument fragments, a fragment that carries the
\* name alone and one that carries the id with arguments; for index 1 the
\* usual first fragment and argument fragments
ToolDeltas ==
    { ChoiceDelta(0, "call_0", "shell", ""),
      ChoiceDelta(0, None, None, "a"),
      ChoiceDelta(0, None, None, "b"),
      ChoiceDelta(0, None, "shell", None),
      ChoiceDelta(0, "call_0", None, "a"),
      ChoiceDelta(1, "call_1", "edit", ""),
      ChoiceDelta(1, None, None, "a"),
      ChoiceDelta(1, None, None, "b") }

\* one chunk: its usage, whether it has a choice, and the finish reason,
\* content and tool-call fragments of the delta of its first choice
Chunk(usage, has_choice, finish_reason, content, tool_calls) ==
    [usage |-> usage, has_choice |-> has_choice,
     finish_reason |-> finish_reason, content |-> content,
     tool_calls |-> tool_calls]

Chunks ==
    { Chunk("u1", FALSE, None, None, <<>>),
      Chunk("u2", FALSE, None, None, <<>>),
      Chunk(UsageNoDetails, FALSE, None, None, <<>>),
      Chunk(None, FALSE, None, None, <<>>),
      Chunk(None, TRUE, None, "x", <<>>),
      Chunk(None, TRUE, "stop", None, <<>>),
      Chunk(None, TRUE, None, None,
            << ChoiceDelta(0, "call_0", "shell", ""),
               ChoiceDelta(1, "call_1", "edit", "") >>) }
    \cup { Chunk(None, TRUE, None, None, << d >>) : d \in ToolDeltas }

\* a StreamEvent of a response; the fields an event type does not set are None
ResponseEvent(type, content, call_id, name, arguments, finish_reason, usage) ==
    [type |-> type, content |-> content, call_id |-> call_id, name |-> name,
     arguments |-> arguments, finish_reason |-> finish_reason, usage |-> usage]

\* the key of idx in the tool_calls dict (kept in insertion order), 0 if none
KeyOf(tcs, idx) ==
    IF \E i \in 1..Len(tcs) : tcs[i].idx = idx
    THEN CHOOSE i \in 1..Len(tcs) : tcs[i].idx = idx
    ELSE 0

\* a fragment put in front of the buffer instead of behind it
prepend_arguments(buffer, fragment) == fragment \o buffer

\* tool_calls[idx]['arguments'] += tool_call_delta.function.arguments
append_arguments(buffer, fragment) == buffer \o fragment

\* the body of `for tool_call_delta in delta.tool_calls` for one fragment:
\* the dict afterwards and the events yielded
handle_tool_call_delta(tcs, d) ==
    LET tcs1 == IF KeyOf(tcs, d.index) = 0
                THEN Append(tcs, [idx |-> d.index,
                                  id |-> IF Truthy(d.id) THEN d.id ELSE "",
                                  name |-> "", arguments |-> ""])
                ELSE tcs
        k == KeyOf(tcs1, d.index)
        tcs2 == IF Truthy(d.name)
                THEN [tcs1 EXCEPT ![k].name = d.name]
                ELSE tcs1
        start == IF Truthy(d.name)
                 THEN << ResponseEvent("TOOL_CALL_START", None, tcs1[k].id,
                                       d.name, None, None, None) >>
                 ELSE <<>>
        tcs3 == IF Truthy(d.arguments)
                THEN [tcs2 EXCEPT ![k].arguments =
                                      append_arguments(@, d.arguments)]
                ELSE tcs2
        delta == IF Truthy(d.arguments)
                 THEN << ResponseEvent("TOOL_CALL_DELTA", None, tcs1[k].id,
                                       d.name, d.arguments, None, None) >>
                 ELSE <<>>
    IN [tool_calls |-> tcs3,
        events |-> start \o delta,
        origin |-> [i \in 1..Len(start \o delta) |-> d.index]]

RECURSIVE handle_tool_call_deltas(_, _)
\* `for tool_call_delta in delta.tool_calls`
handle_tool_call_deltas(tcs, ds) ==
    IF ds = <<>>
    THEN [tool_calls |-> tcs, events |-> <<>>, origin |-> <<>>]
    ELSE LET r1 == handle_tool_call_delta(tcs, Head(ds))
             r2 == handle_tool_call_deltas(r1.tool_calls, Tail(ds))
         IN [tool_calls |-> r2.tool_calls,
             events |-> r1.events \o r2.events,
             origin |-> r1.origin \o r2.origin]

\* the usage local after the first statement of the chunk loop
chunk_usage(chunk) ==
    IF Truthy(chunk.usage) THEN chunk.usage ELSE FakeUsage

\* the body of `async for chunk in response` for a chunk whose usage, if
\* any, is complete: the locals afterwards and the events yielded
process_chunk(st, chunk) ==
    LET usage1 == chunk_usage(chunk)
        finish1 == IF Truthy(chunk.finish_reason)
                   THEN chunk.finish_reason ELSE st.finish_reason
        text == IF Truthy(chunk.content)
                THEN << ResponseEvent("TEXT_DELTA", chunk.content, None, None,
                                      None, finish1, usage1) >>
                ELSE <<>>
        r == handle_tool_call_deltas(st.tool_calls, chunk.tool_calls)
    IN IF ~chunk.has_choice
       THEN [tool_calls |-> st.tool_calls, finish_reason |-> st.finish_reason,
             usage |-> usage1, events |-> <<>>, origin |-> <<>>]
       ELSE [tool_calls |-> r.tool_calls, finish_reason |-> finish1,
             usage |-> usage1, events |-> text \o r.events,
             origin |-> [i \in 1..Len(text) |-> -1] \o r.origin]

\* a loop over the gathered tool calls that skips those without a name
tool_call_completes_named(tcs) ==
    LET named == SelectSeq(tcs, LAMBDA tc : tc.name # "")
    IN [i \in 1..Len(named) |->
          ResponseEvent("TOOL_CALL_COMPLETE", None, named[i].id, named[i].name,
                        named[i].arguments, None, None)]

\* `for idx, tc in tool_calls.items()`: one ToolCallComplete per entry; the
\* arguments field holds the buffer handed to parse_tool_call_arguments
tool_call_completes(tcs) ==
    [i \in 1..Len(tcs) |->
        ResponseEvent("TOOL_CALL_COMPLETE", None, tcs[i].id, tcs[i].name,
                      tcs[i].arguments, None, None)]

\* the final MessageComplete of _stream_response
message_complete(finish_reason, usage) ==
    ResponseEvent("MESSAGE_COPLETE", None, None, None, None, finish_reason, usage)

\* the replies of the model for a request without streaming: content, the
\* number of tool calls of the message, finish reason, usage
Replies ==
    [content : {None, "x"}, tool_calls : 0..2, finish_reason : {"stop"},
     usage : {None, "u1", UsageNoDetails}]

NoReply == [content |-> None, tool_calls |-> 0, finish_reason |-> None,
            usage |-> None]

\* _non_stream_response(reply): the event it returns or the exception it
\* raises. list.append is called with keyword arguments for the first tool
\* call of the message.
non_stream_outcome(reply) ==
    IF reply.tool_calls > 0 THEN [exc |-> "TypeError", events |-> <<>>]
    ELSE IF reply.usage = UsageNoDetails
    THEN [exc |-> "AttributeError", events |-> <<>>]
    ELSE [exc |-> None,
          events |-> << ResponseEvent("MESSAGE_COPLETE", reply.content, None,
                                      None, None, reply.finish_reason,
                                      reply.usage) >>]

\* no response is being handled
ResponseIdle ==
    [pc |-> "idle", mode |-> "stream", chunks |-> <<>>, reply |-> NoReply,
     tool_calls |-> <<>>, finish_reason |-> None, usage |-> None,
     events |-> <<>>, origin |-> <<>>, exc |-> None]

\* _stream_response: the request is made and the chunk loop is entered
stream_response ==
    /\ sr.pc \in {"idle", "done", "raised"}
    /\ sr' = [ResponseIdle EXCEPT !.pc = "chunks"]
    /\ UNCHANGED outside_response

\* one iteration of the chunk loop. origin remembers, for each event, the
\* tool-call index it was yielded for (-1 if none) and the number of the
\* chunk that produced it.
NextChunk(chunk) ==
    /\ sr.pc = "chunks"
    /\ Len(sr.chunks) < MaxChunks
    /\ LET r == process_chunk(sr, chunk)
           n == Len(sr.chunks) + 1
       IN IF chunk.usage = UsageNoDetails
          THEN sr' = [sr EXCEPT !.pc = "raised", !.exc = "AttributeError",
                                !.chunks = Append(@, chunk)]
          ELSE sr' = [sr EXCEPT !.chunks = Append(@, chunk),
                                !.tool_calls = r.tool_calls,
                                !.finish_reason = r.finish_reason,
                                !.usage = r.usage,
                                !.events = @ \o r.events,
                                !.origin = @ \o [i \in 1..Len(r.origin) |->
                                                   [index |-> r.origin[i], at |-> n]]]
    /\ UNCHANGED outside_response

\* the chunk iterator raises
ChunkIterationFails ==
    /\ sr.pc = "chunks"
    /\ sr' = [sr EXCEPT !.pc = "raised", !.exc = "APIConnectionError"]
    /\ UNCHANGED outside_response

\* the chunk stream ends: the code after the chunk loop. origin remembers
\* for each ToolCallComplete the key of the dict entry it was built from.
EndOfChunks ==
    /\ sr.pc = "chunks"
    /\ LET tail == tool_call_completes(sr.tool_calls)
                   \o << message_complete(sr.finish_reason, sr.usage) >>
       IN sr' = [sr EXCEPT !.pc = "done",
                           !.events = @ \o tail,
                           !.origin = @ \o [i \in 1..Len(tail) |->
                               [index |-> IF i <= Len(sr.tool_calls)
                                             /\ tail[i].type = "TOOL_CALL_COMPLETE"
                                          THEN sr.tool_calls[i].idx ELSE -1,
                                at |-> 0]]]
    /\ UNCHANGED outside_response

\* chat_completion with stream = False whose request succeeds: it yields the
\* event of _non_stream_response, or the exception of it propagates
non_stream_response(reply) ==
    /\ sr.pc \in {"idle", "done", "raised"}
    /\ LET r == non_stream_outcome(reply)
       IN sr' = [ResponseIdle EXCEPT
                    !.pc = IF r.exc = None THEN "done" ELSE "raised",
                    !.mode = "non_stream",
                    !.reply = reply,
                    !.exc = r.exc,
                    !.events = r.events,
                    !.origin = [i \in 1..Len(r.events) |-> [index |-> -1, at |-> 0]]]
    /\ UNCHANGED outside_response

NextResponse ==
    \/ stream_response
    \/ \E chunk \in Chunks : NextChunk(chunk)
    \/ ChunkIterationFails
    \/ EndOfChunks
    \/ \E reply \in Replies : non_stream_response(reply)

(***************************************************************************)
(* Agent.run and Agent._agentic_loop                                       *)
(***************************************************************************)
\* a local of run that no assignment has bound yet
Unbound == "<unbound>"

\* what self.client is: the LLMClient of this repository, or another object
\* with a chat_completion that yields StreamEvents. _agentic_loop calls
\* chat_completion(messages, True): LLMClient takes True for the tool list
\* and raises TypeError in _build_tools before it yields anything.
Clients == {"LLMClient", "stub"}

\* the user messages of the model
Messages == {"hi"}

\* a StreamEvent as the agent loop reads it: type, the content of its
\* text_delta (None if it has no text_delta) and its error
AgentStreamEvent(type, text_delta, error) ==
    [type |-> type, text_delta |-> text_delta, error |-> error]

AgentStreamEvents ==
    { AgentStreamEvent("TEXT_DELTA", "a", None),
      AgentStreamEvent("TEXT_DELTA", "b", None),
      AgentStreamEvent("TEXT_DELTA", "", None),
      AgentStreamEvent("TEXT_DELTA", None, None),
      AgentStreamEvent("TOOL_CALL_START", None, None),
      AgentStreamEvent("TOOL_CALL_COMPLETE", None, None),
      AgentStreamEvent("MESSAGE_COPLETE", None, None),
      AgentStreamEvent("ERROR", None, "boom"),
      AgentStreamEvent("ERROR", None, None) }

\* AgentEvent(type, data): data is the message, content, error or response
AgentEvent(type, data) == [type |-> type, data |-> data]

\* the text of a delta put in place of the text gathered so far
overwrite_text(response_text, content) == content

\* response_text += content
accumulate_text(response_text, content) == response_text \o content

\* the body of `async for event in self.client.chat_completion(...)`: the
\* response_text afterwards and the agent events yielded
handle_stream_event(response_text, event) ==
    IF event.type = "TEXT_DELTA"
    THEN IF event.text_delta # None
         THEN [response_text |-> accumulate_text(response_text, event.text_delta),
               events |-> << AgentEvent("text_delta", event.text_delta) >>]
         ELSE [response_text |-> response_text, events |-> <<>>]
    ELSE IF event.type = "ERROR"
    THEN [response_text |-> response_text,
          events |-> << AgentEvent("agent_error",
                                   IF Truthy(event.error) THEN event.error
                                   ELSE "Unknown error occurred.") >>]
    ELSE [response_text |-> response_text, events |-> <<>>]

\* the code of _agentic_loop after the stream loop
after_stream(response_text) ==
    IF response_text # ""
    THEN << AgentEvent("text_complete", response_text) >>
    ELSE <<>>

\* final_response of run after it has passed on the events of the loop
final_response_after(final_response, evs) ==
    LET complete == {i \in DOMAIN evs : evs[i].type = "text_complete"}
    IN IF complete = {} THEN final_response
       ELSE evs[CHOOSE i \in complete : \A j \in complete : j <= i].data

\* the messages list that _agentic_loop builds for its request
fake_messages == << [role |-> "user", content |-> "What's up"] >>

\* no run yet. message is the argument of run, sent the messages list
\* handed to chat_completion.
AgentIdle ==
    [pc |-> "idle", client |-> "stub", consumed |-> <<>>, requests |-> 0,
     response_text |-> "", final_response |-> Unbound, events |-> <<>>,
     exc |-> None, message |-> None, sent |-> <<>>]

\* run(message) up to the first request of _agentic_loop: Start is yielded
\* and chat_completion is called once
run(client, message) ==
    /\ ag.pc \in {"idle", "done", "raised"}
    /\ ag' = [AgentIdle EXCEPT !.pc = "stream",
                               !.client = client,
                               !.requests = 1,
                               !.message = message,
                               !.sent = fake_messages,
                               !.events = << AgentEvent("agent_start", message) >>]
    /\ UNCHANGED outside_agent

\* the stream of the client yields an event and the loop body handles it
ClientYields(event) ==
    /\ ag.pc = "stream"
    /\ ag.client = "stub"
    /\ Len(ag.consumed) < MaxAgentStream
    /\ LET r == handle_stream_event(ag.response_text, event)
       IN ag' = [ag EXCEPT !.consumed = Append(@, event),
                           !.response_text = r.response_text,
                           !.events = @ \o r.events]
    /\ UNCHANGED outside_agent

\* the stream of the client raises: at once for LLMClient, at any point for
\* another client. Neither _agentic_loop nor run catches it.
ClientRaises ==
    /\ ag.pc = "stream"
    /\ ag.client = "LLMClient" => ag.consumed = <<>>
    /\ ag' = [ag EXCEPT !.pc = "raised",
                        !.exc = IF ag.client = "LLMClient" THEN "TypeError"
                                ELSE "ClientError"]
    /\ UNCHANGED outside_agent

\* the stream of the client ends: the rest of _agentic_loop and of run
ClientEnds ==
    /\ ag.pc = "stream"
    /\ ag.client = "stub"
    /\ LET tail == after_stream(ag.response_text)
           final == final_response_after(ag.final_response, ag.events \o tail)
       IN IF final = Unbound
          THEN ag' = [ag EXCEPT !.pc = "raised",
                                !.exc = "UnboundLocalError",
                                !.events = @ \o tail]
          ELSE ag' = [ag EXCEPT !.pc = "done",
                                !.final_response = final,
                                !.events = @ \o tail
                                           \o << AgentEvent("agent_end", final) >>]
    /\ UNCHANGED outside_agent

NextAgent ==
    \/ \E client \in Clients, message \in Messages : run(client, message)
    \/ \E event \in AgentStreamEvents : ClientYields(event)
    \/ ClientRaises
    \/ ClientEnds

(***************************************************************************)
(* ContextManager                                                          *)
(***************************************************************************)
PRUNE_PROTECT_TOKENS == 40000
PRUNE_MINIMUM_TOKENS == 20000

\* the content that pruning puts in place of a tool result
Placeholder == "[Old tool result content cleared]"

\* the rendered system prompt of the model
SystemPrompt == "You are magnet-code"

\* the tool outputs of the model, named after their size in tokens
ToolOutputs == {"out10k", "out35k", "out45k"}

\* count_tokens(text, model): the number of tokens that the tokenizer makes
\* of the text; given here for the texts of the model
count_tokens(text) ==
    CASE text = "" -> 0
      [] text = "out10k" -> 10000
      [] text = "out35k" -> 35000
      [] text = "out45k" -> 45000
      [] text = Placeholder -> 7
      [] text \in {"hi", "ok"} -> 1
      [] OTHER -> 100

\* MessageItem; pruned_at = 0 stands for None, tool_calls holds call ids
MessageItem(role, content, token_count, tool_call_id, tool_calls) ==
    [role |-> role, content |-> content, token_count |-> token_count,
     tool_call_id |-> tool_call_id, tool_calls |-> tool_calls, pruned_at |-> 0]

\* MessageItem.to_dict: a key that the dict does not have is None, or the
\* empty list for tool_calls
to_dict(item) ==
    [role |-> item.role, content |-> item.content,
     tool_call_id |-> IF Truthy(item.tool_call_id) THEN item.tool_call_id ELSE None,
     tool_calls |-> item.tool_calls]

\* a rendering that leaves the system message out
get_messages_log_only(system_prompt, messages) ==
    [i \in 1..Len(messages) |-> to_dict(messages[i])]

\* ContextManager.get_messages
get_messages(system_prompt, messages) ==
    (IF system_prompt # ""
     THEN << [role |-> "system", content |-> system_prompt,
              tool_call_id |-> None, tool_calls |-> <<>>] >>
     ELSE <<>>)
    \o [i \in 1..Len(messages) |-> to_dict(messages[i])]

\* an entry put in front of the log
insert_first(messages, item) == << item >> \o messages

\* self._messages.append(item)
append_item(messages, item) == Append(messages, item)

\* sum(1 for msg in self._messages if msg.role == "user")
user_message_count(messages) ==
    Cardinality({i \in DOMAIN messages : messages[i].role = "user"})

RECURSIVE scan(_, _, _, _, _)
\* `for msg in reversed(self._messages)` from entry i down to the oldest:
\* the positions gathered in to_prune and the sum of their tokens
scan(messages, i, total_tokens, pruned_tokens, to_prune) ==
    IF i = 0
    THEN [pruned_tokens |-> pruned_tokens, to_prune |-> to_prune]
    ELSE LET msg == messages[i]
             tokens == IF msg.token_count # 0 THEN msg.token_count
                       ELSE count_tokens(msg.content)
         IN IF msg.role = "tool" /\ Truthy(msg.tool_call_id)
            THEN IF msg.pruned_at # 0
                 THEN [pruned_tokens |-> pruned_tokens, to_prune |-> to_prune]
                 ELSE IF total_tokens + tokens > PRUNE_PROTECT_TOKENS
                 THEN scan(messages, i - 1, total_tokens + tokens,
                           pruned_tokens + tokens, to_prune \cup {i})
                 ELSE scan(messages, i - 1, total_tokens + tokens,
                           pruned_tokens, to_prune)
            ELSE scan(messages, i - 1, total_tokens, pruned_tokens, to_prune)

\* a test against a quarter of the minimum
below_quarter_minimum(pruned_tokens) == pruned_tokens * 4 < PRUNE_MINIMUM_TOKENS

\* pruned_tokens < self.PRUNE_MINIMUM_TOKENS
below_minimum(pruned_tokens) == pruned_tokens < PRUNE_MINIMUM_TOKENS

\* a clearing that replaces the content and nothing else
clear_content_only(msg, now) == [msg EXCEPT !.content = Placeholder]

\* the body of `for msg in to_prune`
prune_entry(msg, now) ==
    [msg EXCEPT !.content = Placeholder,
                !.token_count = count_tokens(Placeholder),
                !.pruned_at = now]

\* a pruning that clears the newest of the gathered entries only
prune_newest_only(messages, now) ==
    LET r == scan(messages, Len(messages), 0, 0, {})
        newest == {i \in r.to_prune : \A j \in r.to_prune : j <= i}
    IN IF user_message_count(messages) < 2 \/ below_minimum(r.pruned_tokens)
       THEN [ret |-> 0, messages |-> messages]
       ELSE [ret |-> Cardinality(newest),
             messages |-> [i \in 1..Len(messages) |->
                              IF i \in newest
                              THEN prune_entry(messages[i], now)
                              ELSE messages[i]]]

\* ContextManager.prune_tool_outputs at the time now: what it returns and
\* the log afterwards
prune_tool_outputs(messages, now) ==
    LET r == scan(messages, Len(messages), 0, 0, {})
    IN IF user_message_count(messages) < 2 \/ below_minimum(r.pruned_tokens)
       THEN [ret |-> 0, messages |-> messages]
       ELSE [ret |-> Cardinality(r.to_prune),
             messages |-> [i \in 1..Len(messages) |->
                              IF i \in r.to_prune
                              THEN prune_entry(messages[i], now)
                              ELSE messages[i]]]

\* the three contents of a compacted log
continuation_content(summary) ==
    "# Context Restoration (Previous Session Compacted) --- " \o summary
    \o " --- Resume work from where we left off."
ack_content == "I've reviewed the context from the previous session."
continue_content == "Continue with the REMAINING work only."

\* a compaction that stops after the acknowledgment
replace_without_continue(summary) ==
    << MessageItem("user", continuation_content(summary),
                   count_tokens(continuation_content(summary)), None, <<>>),
       MessageItem("assistant", ack_content, count_tokens(ack_content),
                   None, <<>>) >>

\* ContextManager.replace_with_summary: the log afterwards
replace_with_summary(summary) ==
    << MessageItem("user", continuation_content(summary),
                   count_tokens(continuation_content(summary)), None, <<>>),
       MessageItem("assistant", ack_content, count_tokens(ack_content),
                   None, <<>>),
       MessageItem("user", continue_content, count_tokens(continue_content),
                   None, <<>>) >>

\* the tool results of the model: every output for the call id "call_1"
\* and one for the call id "", which LLMClient gives a tool call whose
\* first fragment has no id
ToolResults ==
    [tool_call_id : {"call_1"}, content : ToolOutputs]
    \cup {[tool_call_id |-> "", content |-> "out45k"]}

\* the summaries and the timestamps of the model
Summaries == {"s1", "s2"}
Times == {1, 2}

\* a context manager right after construction. inserted holds the entries
\* as they were put into the log since it was last replaced, op is the last
\* call, again whether the call before it was the same call, ret the value
\* a prune_tool_outputs returned, rendered what get_messages returned and
\* summary the argument of replace_with_summary (the last three are kept
\* until the next call).
ContextEmpty ==
    [system_prompt |-> SystemPrompt, messages |-> <<>>, inserted |-> <<>>,
     op |-> "init", again |-> FALSE, ret |-> 0, rendered |-> <<>>,
     summary |-> None]

\* the bookkeeping of a call named op that leaves the log as messages
AfterCall(op, messages) ==
    [ctx EXCEPT !.messages = messages, !.op = op, !.again = (ctx.op = op),
                !.ret = 0, !.rendered = <<>>, !.summary = None]

add_user_message(content) ==
    /\ Len(ctx.inserted) < MaxMessages
    /\ LET item == MessageItem("user", content, count_tokens(content), None, <<>>)
       IN ctx' = [AfterCall("add_user_message", append_item(ctx.messages, item))
                    EXCEPT !.inserted = Append(@, item)]
    /\ UNCHANGED outside_context

add_assistant_message(content, tool_calls) ==
    /\ Len(ctx.inserted) < MaxMessages
    /\ LET item == MessageItem("assistant", content, count_tokens(content),
                               None, tool_calls)
       IN ctx' = [AfterCall("add_assistant_message", append_item(ctx.messages, item))
                    EXCEPT !.inserted = Append(@, item)]
    /\ UNCHANGED outside_context

add_tool_result(tool_call_id, content) ==
    /\ Len(ctx.inserted) < MaxMessages
    /\ LET item == MessageItem("tool", content, count_tokens(content),
                               tool_call_id, <<>>)
       IN ctx' = [AfterCall("add_tool_result", append_item(ctx.messages, item))
                    EXCEPT !.inserted = Append(@, item)]
    /\ UNCHANGED outside_context

PruneToolOutputs(now) ==
    /\ LET r == prune_tool_outputs(ctx.messages, now)
       IN ctx' = [AfterCall("prune_tool_outputs", r.messages) EXCEPT !.ret = r.ret]
    /\ UNCHANGED outside_context

GetMessages ==
    /\ ctx' = [AfterCall("get_messages", ctx.messages)
                 EXCEPT !.rendered = get_messages(ctx.system_prompt, ctx.messages)]
    /\ UNCHANGED outside_context

ReplaceWithSummary(summary) ==
    /\ ctx' = [AfterCall("replace_with_summary", replace_with_summary(summary))
                 EXCEPT !.inserted = replace_with_summary(summary),
                        !.summary = summary]
    /\ UNCHANGED outside_context

\* ContextManager.clear
clear ==
    /\ ctx' = [AfterCall("clear", <<>>) EXCEPT !.inserted = <<>>]
    /\ UNCHANGED outside_context

NextContext ==
    \/ \E content \in {"hi"} : add_user_message(content)
    \/ \E content \in {"ok"}, tool_calls \in {<<>>, << "call_1" >>} :
          add_assistant_message(content, tool_calls)
    \/ \E r \in ToolResults : add_tool_result(r.tool_call_id, r.content)
    \/ \E now \in Times : PruneToolOutputs(now)
    \/ GetMessages
    \/ \E summary \in Summaries : ReplaceWithSummary(summary)
    \/ clear

(***************************************************************************)
(* LoopDetector                                                            *)
(***************************************************************************)
max_exact_repeats == 3
max_cycle_length == 3
\* deque(maxlen=20)
history_maxlen == 20

\* the arguments of record_action: args holds the "k=v" strings of the args
\* dict in the order of its sorted keys
DetectorAction(action_type, tool_name, args, text) ==
    [action_type |-> action_type, tool_name |-> tool_name, args |-> args,
     text |-> text]

DetectorActions ==
    { DetectorAction("tool_call", "shell", << "command=ls" >>, None),
      DetectorAction("tool_call", "shell", << "command=pwd" >>, None),
      DetectorAction("response", None, <<>>, "hi") }

\* the signature that record_action builds
signature(action) ==
    Join("|", << action.action_type >>
              \o (IF action.action_type = "tool_call"
                  THEN << action.tool_name >> \o action.args
                  ELSE IF action.action_type = "response"
                  THEN << action.text >>
                  ELSE <<>>))

\* self._history.append(signature) on a deque with maxlen
deque_append(history, sig) ==
    IF Len(history) = history_maxlen
    THEN Append(Tail(history), sig)
    ELSE Append(history, sig)

\* a test of the whole history instead of its last entries
all_identical(history) ==
    Cardinality({history[i] : i \in DOMAIN history}) = 1

\* len(set(list(self._history)[-self.max_exact_repeats:])) == 1
exact_repeat(history) ==
    Cardinality({history[i] : i \in (Len(history) - max_exact_repeats + 1)
                                    ..Len(history)}) = 1

\* LoopDetector.check_for_loop: the report it returns (None for no loop) or
\* the exception it raises. The cycle check slices the deque, which raises
\* TypeError in the first pass of its loop.
check_for_loop(history) ==
    IF Len(history) < 2
    THEN [exc |-> None, report |-> None]
    ELSE IF Len(history) >= max_exact_repeats /\ exact_repeat(history)
    THEN [exc |-> None,
          report |-> "Same action repeated " \o ToString(max_exact_repeats)
                     \o " times"]
    ELSE IF Len(history) >= max_cycle_length * 2
    THEN [exc |-> "TypeError", report |-> None]
    ELSE [exc |-> None, report |-> None]

\* a detector right after construction; checked tells whether
\* check_for_loop was called since the last record_action, exc and report
\* how that call ended
DetectorEmpty ==
    [history |-> <<>>, checked |-> FALSE, exc |-> None, report |-> None]

record_action(action) ==
    /\ Len(ld.history) < MaxRecorded
    /\ ld' = [DetectorEmpty EXCEPT
                 !.history = deque_append(ld.history, signature(action))]
    /\ UNCHANGED outside_detector

CheckForLoop ==
    /\ LET r == check_for_loop(ld.history)
       IN ld' = [ld EXCEPT !.checked = TRUE, !.exc = r.exc, !.report = r.report]
    /\ UNCHANGED outside_detector

NextDetector ==
    \/ \E action \in DetectorActions : record_action(action)
    \/ CheckForLoop

(***************************************************************************)
(* SubAgentTool.execute                                                    *)
(***************************************************************************)
\* the members of AgentEventType
AgentEventTypes ==
    {"agent_start", "agent_end", "agent_error", "text_delta", "text_complete"}

\* SubagentDefinition.name of the two definitions of subagents.py
DefinitionNames == {"codebase_investigator", "code_reviewer"}

\* max_turns of both definitions of subagents.py and of Config
SHIPPED_MAX_TURNS == 15
DEFAULT_MAX_TURNS == 100

\* the SubagentDefinition of a name: both definitions of subagents.py allow
\* the same four tools and the same number of turns
Definition(name) ==
    [name |-> name,
     allowed_tools |-> {"read_file", "grep", "glob", "list_dir"},
     max_turns |-> SHIPPED_MAX_TURNS]

\* the configurations the sub-agent tool is built with (self.config):
\* allowed_tools unset or set, max_turns the default or a smaller number
ParentConfigs ==
    [allowed_tools : {{}, {"shell", "write_file"}, {"read_file", "shell"}},
     max_turns : {DEFAULT_MAX_TURNS, 5}]

\* Config(**config.to_dict()) with no key replaced
copied_config(config, definition) == config

\* the configuration execute builds for the nested agent
derived_config(config, definition) ==
    [config EXCEPT
        !.max_turns = definition.max_turns,
        !.allowed_tools = IF definition.allowed_tools # {}
                          THEN definition.allowed_tools ELSE @]

\* the goals of the model; "" stands for a goal that is not given
Goals == {"find the parser", "review the diff", "list the tests", ""}

\* what Agent is when execute runs: the class of agent.py, whose __init__
\* takes no config, or a class with the interface that execute uses
\* (Agent(config) as a context manager whose run(prompt) yields AgentEvents)
AgentClasses == {"Agent", "stub"}

\* the events that the nested run of the model yields
NestedEvents ==
    { AgentEvent("agent_start", "prompt"),
      AgentEvent("text_delta", "a"),
      AgentEvent("text_delta", "b"),
      AgentEvent("text_complete", "a"),
      AgentEvent("text_complete", "ab"),
      AgentEvent("agent_error", "boom"),
      AgentEvent("agent_end", "a"),
      AgentEvent("agent_end", None) }

\* the text of the summarizing result
result_text(name, terminate_response, tool_calls, final_response) ==
    "Subagent " \o name \o " completed. Termination: " \o terminate_response
    \o " Tools called: "
    \o (IF tool_calls # <<>> THEN Join(", ", tool_calls) ELSE "None")
    \o " Result: "
    \o (IF Truthy(final_response) THEN final_response ELSE "No response")

\* the locals of execute when the try block is entered
SubAgentLocals ==
    [tool_calls |-> <<>>, final_response |-> None, error |-> None,
     terminate_response |-> "goal", stop |-> FALSE]

\* the except branch of execute for an exception with the text e
except_branch(st, e) ==
    [st EXCEPT !.terminate_response = "error", !.error = e,
               !.final_response = "subagent failed: " \o e, !.stop = TRUE]

\* the body of the loop over agent.run(prompt); expired tells
\* whether the time is past the deadline. AgentEventType has no member
\* TOOL_CALL_START, so the first test of the event type raises
\* AttributeError, which the except branch of execute handles.
handle_event(st, event, expired) ==
    IF expired
    THEN [st EXCEPT !.terminate_response = "timeout",
                    !.final_response = "Subagent timed out", !.stop = TRUE]
    ELSE IF "tool_call_start" \notin AgentEventTypes
    THEN except_branch(st, "TOOL_CALL_START")
    ELSE IF event.type = "tool_call_start"
    THEN [st EXCEPT !.tool_calls = Append(@, event.data)]
    ELSE IF event.type = "text_complete"
    THEN [st EXCEPT !.final_response = event.data]
    ELSE IF event.type = "agent_error"
    THEN [st EXCEPT !.error = event.data,
                    !.final_response = "Subagent error: " \o event.data,
                    !.terminate_response = "error", !.stop = TRUE]
    ELSE st

\* the code of execute after the try statement
summarize(name, st) ==
    IF Truthy(st.error)
    THEN error_result(result_text(name, st.terminate_response, st.tool_calls,
                                  st.final_response), EmptyDict)
    ELSE success_result(result_text(name, st.terminate_response, st.tool_calls,
                                    st.final_response))

\* no execute yet. loop tells how far the nested run has come
\* ("not_started", "running", "ended", "raised"), expired whether the
\* deadline has passed, consumed the events taken from the nested run.
\* parent is the configuration of the tool, config the one that execute
\* has built from it (the parent's as long as none was built).
SubAgentIdle ==
    [pc |-> "idle", name |-> "codebase_investigator", agent |-> "stub",
     goal |-> "", loop |-> "not_started", expired |-> FALSE,
     consumed |-> <<>>, st |-> SubAgentLocals, result |-> NoResult,
     parent |-> [allowed_tools |-> {}, max_turns |-> DEFAULT_MAX_TURNS],
     config |-> [allowed_tools |-> {}, max_turns |-> DEFAULT_MAX_TURNS]]

\* execute(invocation) of the tool built with config, up to the first wait
\* for an event of the nested run
execute(name, config, agent, goal) ==
    /\ sub.pc \in {"idle", "returned"}
    /\ LET call == [SubAgentIdle EXCEPT
                       !.name = name, !.agent = agent, !.goal = goal,
                       !.parent = config,
                       !.config = IF goal = "" THEN config
                                  ELSE derived_config(config, Definition(name))]
           failed == except_branch(SubAgentLocals,
                        "Agent.__init__() takes 1 positional argument but 2 were given")
       IN IF goal = ""
          THEN sub' = [call EXCEPT
                          !.pc = "returned",
                          !.result = error_result("No goal specified for subagent",
                                                  EmptyDict)]
          ELSE IF agent = "Agent"
          THEN sub' = [call EXCEPT !.pc = "returned", !.st = failed,
                                   !.result = summarize(name, failed)]
          ELSE sub' = [call EXCEPT !.pc = "events", !.loop = "running"]
    /\ UNCHANGED outside_subagent

\* the time passes the deadline while execute waits for the nested run
DeadlinePasses ==
    /\ sub.pc = "events"
    /\ ~sub.expired
    /\ sub' = [sub EXCEPT !.expired = TRUE]
    /\ UNCHANGED outside_subagent

\* the nested run yields an event and the loop body handles it
NestedYields(event) ==
    /\ sub.pc = "events"
    /\ LET st1 == handle_event(sub.st, event, sub.expired)
       IN sub' = [sub EXCEPT
                     !.consumed = Append(@, event),
                     !.st = st1,
                     !.pc = IF st1.stop THEN "returned" ELSE "events",
                     !.result = IF st1.stop THEN summarize(sub.name, st1)
                                ELSE sub.result]
    /\ UNCHANGED outside_subagent

\* the nested run ends without a further event
NestedEnds ==
    /\ sub.pc = "events"
    /\ sub' = [sub EXCEPT !.pc = "returned", !.loop = "ended",
                          !.result = summarize(sub.name, sub.st)]
    /\ UNCHANGED outside_subagent

\* the nested run raises
NestedRaises ==
    /\ sub.pc = "events"
    /\ LET st1 == except_branch(sub.st, "nested failure")
       IN sub' = [sub EXCEPT !.pc = "returned", !.loop = "raised", !.st = st1,
                             !.result = summarize(sub.name, st1)]
    /\ UNCHANGED outside_subagent

NextSubAgent ==
    \/ \E name \in DefinitionNames, config \in ParentConfigs,
          agent \in AgentClasses, goal \in Goals :
          execute(name, config, agent, goal)
    \/ DeadlinePasses
    \/ \E event \in NestedEvents : NestedYields(event)
    \/ NestedEnds
    \/ NestedRaises


(***************************************************************************)
(* ShellTool.execute                                                       *)
(***************************************************************************)
\* sys.platform
Platforms == {"linux", "win32"}

\* the commands of the model
ShellCommands == {"ls", "sleep 600", "make -j2 & wait", "sudo reboot"}

\* one of BLOCKED_COMMANDS occurs in the lowered, stripped command
is_blocked(command) == command \in {"sudo reboot"}

\* the processes that a command starts beside its shell
children(command) ==
    IF command = "make -j2 & wait" THEN {"child"} ELSE {}

\* params.timeout in seconds (the schema admits 1 to 600)
ShellTimeouts == {1, 2}

\* what the pipes of the model deliver
Stdouts == {"", "out\n"}
Stderrs == {"", "err\n"}
ExitCodes == {0, 1}

\* str.rstrip and str.strip on the texts of the model
rstrip(text) ==
    CASE text = "out\n" -> "out"
      [] text = "err\n" -> "err"
      [] OTHER -> text

\* the code of execute after communicate() has returned; the outputs of the
\* model are shorter than the 100 KiB at which the output is cut
shell_result(stdout, stderr, exit_code) ==
    LET o1 == IF rstrip(stdout) # "" THEN rstrip(stdout) ELSE ""
        o2 == IF rstrip(stderr) # ""
              THEN o1 \o "\n--- stderr ---\n" \o rstrip(stderr) ELSE o1
        o3 == IF exit_code # 0
              THEN o2 \o "\nExit code: " \o ToString(exit_code) ELSE o2
    IN [success |-> exit_code = 0,
        error |-> IF exit_code # 0 THEN stderr ELSE None,
        exit_code |-> exit_code,
        output |-> o3,
        metadata |-> EmptyDict]

\* no execute yet. alive holds the processes of the command's process group
\* that run, elapsed the seconds execute has waited for them.
ShellIdle ==
    [pc |-> "idle", platform |-> "linux", command |-> "ls", timeout |-> 1,
     elapsed |-> 0, alive |-> {}, timed_out |-> FALSE, result |-> NoResult,
     exc |-> None]

\* the except branch of execute for asyncio.TimeoutError. Off Windows it
\* calls os.getpgid(process) with the Process object, where an integer pid
\* is required: TypeError, before anything is killed. On Windows it kills
\* the shell process and waits for it.
timeout_branch(s) ==
    IF s.platform # "win32"
    THEN [s EXCEPT !.pc = "raised", !.exc = "TypeError", !.timed_out = TRUE]
    ELSE [s EXCEPT !.pc = "returned", !.timed_out = TRUE,
                   !.alive = @ \ {"shell"},
                   !.result = error_result("Command timed out after "
                                           \o ToString(s.timeout), EmptyDict)]

\* execute(invocation) up to the call of input(); cwd_exists tells whether
\* the working directory exists
shell_execute(platform, command, timeout, cwd_exists) ==
    /\ sh.pc \in {"idle", "returned", "raised"}
    /\ LET call == [ShellIdle EXCEPT !.platform = platform,
                                     !.command = command,
                                     !.timeout = timeout]
       IN IF is_blocked(command)
          THEN sh' = [call EXCEPT
                         !.pc = "returned",
                         !.result = error_result(
                             "Command blocked for safety: " \o command,
                             [blocked |-> TRUE])]
          ELSE IF ~cwd_exists
          THEN sh' = [call EXCEPT
                         !.pc = "returned",
                         !.result = error_result(
                             "Working directory doesn't exist: /gone",
                             EmptyDict)]
          ELSE sh' = [call EXCEPT !.pc = "input"]
    /\ UNCHANGED outside_shell

\* input() returns and the process is created in a session of its own
EnterPressed ==
    /\ sh.pc = "input"
    /\ sh' = [sh EXCEPT !.pc = "running",
                        !.alive = {"shell"} \cup children(sh.command)]
    /\ UNCHANGED outside_shell

\* input() finds the standard input at its end
InputRaises ==
    /\ sh.pc = "input"
    /\ sh' = [sh EXCEPT !.pc = "raised", !.exc = "EOFError"]
    /\ UNCHANGED outside_shell

\* a second passes while execute waits for communicate()
Tick ==
    /\ sh.pc = "running"
    /\ sh.elapsed < sh.timeout
    /\ sh' = [sh EXCEPT !.elapsed = @ + 1]
    /\ UNCHANGED outside_shell

\* the processes of the command exit in time and communicate() returns
ProcessExits(stdout, stderr, exit_code) ==
    /\ sh.pc = "running"
    /\ sh.elapsed < sh.timeout
    /\ sh' = [sh EXCEPT !.pc = "returned", !.alive = {},
                        !.result = shell_result(stdout, stderr, exit_code)]
    /\ UNCHANGED outside_shell

\* wait_for gives up after params.timeout seconds
TimeoutExpires ==
    /\ sh.pc = "running"
    /\ sh.elapsed = sh.timeout
    /\ sh' = timeout_branch(sh)
    /\ UNCHANGED outside_shell

NextShell ==
    \/ \E platform \in Platforms, command \in ShellCommands,
          timeout \in ShellTimeouts, cwd_exists \in BOOLEAN :
          shell_execute(platform, command, timeout, cwd_exists)
    \/ EnterPressed
    \/ InputRaises
    \/ Tick
    \/ \E stdout \in Stdouts, stderr \in Stderrs, exit_code \in ExitCodes :
          ProcessExits(stdout, stderr, exit_code)
    \/ TimeoutExpires

(***************************************************************************)
(* MCPManager and MCPClient                                                *)
(***************************************************************************)
\* the keys of config.mcp_servers
ServerNames == {"fs", "web"}

\* config.mcp_servers of the model: for each configured server whether it
\* is enabled
McpServers == UNION {[D -> BOOLEAN] : D \in SUBSET ServerNames}

\* the tools that a server lists
ServerTools(name) == IF name = "fs" THEN {"read", "list"} ELSE {"fetch"}

\* MCPClient.__init__. at is the place where connect() stands
\* ("not_started", "aenter", "list_tools", "done"), outcome what the
\* wait_for around it gave, timed_out whether its own timeout cut it off.
NewClient ==
    [status |-> "DISCONNECTED", at |-> "not_started", has_client |-> FALSE,
     tools |-> {}, outcome |-> None, timed_out |-> FALSE]

\* the guard of MCPClient.call_tool passes
usable(client) == client.has_client /\ client.status = "CONNECTED"

\* the exceptions among the outcomes of the connection tasks
Failures(clients) ==
    {clients[n].outcome : n \in DOMAIN clients} \ {"ok", None}

\* a gather that raises the exception of one of its tasks
gather_raising(clients) ==
    IF Failures(clients) = {} THEN None
    ELSE CHOOSE e \in Failures(clients) : TRUE

\* await asyncio.gather(*connection_tasks, return_exceptions=True): the
\* exception that the await raises in initialize
gather(clients) == None

\* the name under which register_tools registers a tool of a client
mcp_tool_name(name, tool) == name \o "__" \o tool

\* no call yet; finished lists the clients in the order in which their
\* connection tasks ended
McpIdle ==
    [servers |-> [n \in {} |-> TRUE], clients |-> [n \in {} |-> NewClient],
     initialized |-> FALSE, pc |-> "idle", exc |-> None, finished |-> <<>>,
     count |-> 0]

\* initialize() up to the await of gather
initialize ==
    /\ mcp.pc \in {"idle", "returned"}
    /\ IF mcp.initialized \/ DOMAIN mcp.servers = {}
       THEN mcp' = [mcp EXCEPT !.pc = "returned", !.exc = None]
       ELSE LET enabled == {n \in DOMAIN mcp.servers : mcp.servers[n]}
            IN mcp' = [mcp EXCEPT
                          !.clients = [n \in enabled \cup DOMAIN mcp.clients |->
                                          IF n \in enabled THEN NewClient
                                          ELSE mcp.clients[n]],
                          !.pc = "gathering", !.exc = None,
                          !.finished = <<>>]
    /\ UNCHANGED <<mcp_tools, outside_mcp>>

\* connect() of a client up to its first await; transport_ok tells whether
\* the transport and the Client object could be built
ConnectStarts(name, transport_ok) ==
    /\ mcp.pc = "gathering"
    /\ name \in DOMAIN mcp.clients
    /\ mcp.clients[name].at = "not_started"
    /\ mcp' = [mcp EXCEPT
                  !.clients[name] =
                      IF transport_ok
                      THEN [@ EXCEPT !.status = "CONNECTING",
                                     !.has_client = TRUE, !.at = "aenter"]
                      ELSE [@ EXCEPT !.status = "ERROR", !.at = "done",
                                     !.outcome = "ValueError"],
                  !.finished = IF transport_ok THEN @ ELSE Append(@, name)]
    /\ UNCHANGED <<mcp_tools, outside_mcp>>

\* the await at which connect() stands returns: __aenter__, then list_tools
\* and the rest of the try block
AwaitReturns(name) ==
    /\ mcp.pc = "gathering"
    /\ name \in DOMAIN mcp.clients
    /\ mcp.clients[name].at \in {"aenter", "list_tools"}
    /\ mcp' = [mcp EXCEPT
                  !.clients[name] =
                      IF @.at = "aenter"
                      THEN [@ EXCEPT !.at = "list_tools"]
                      ELSE [@ EXCEPT !.tools = ServerTools(name),
                                     !.status = "CONNECTED",
                                     !.at = "done", !.outcome = "ok"],
                  !.finished = IF mcp.clients[name].at = "aenter" THEN @
                               ELSE Append(@, name)]
    /\ UNCHANGED <<mcp_tools, outside_mcp>>

\* the await at which connect() stands raises an Exception
AwaitRaises(name) ==
    /\ mcp.pc = "gathering"
    /\ name \in DOMAIN mcp.clients
    /\ mcp.clients[name].at \in {"aenter", "list_tools"}
    /\ mcp' = [mcp EXCEPT
                  !.clients[name] = [@ EXCEPT !.status = "ERROR",
                                              !.at = "done",
                                              !.outcome = "ConnectionError"],
                  !.finished = Append(@, name)]
    /\ UNCHANGED <<mcp_tools, outside_mcp>>

\* startup_timeout_sec of a client passes while connect() stands at an
\* await: wait_for cancels connect(), the await raises CancelledError,
\* which is no Exception, so the except branch of connect() is not taken,
\* and wait_for raises TimeoutError
StartupTimeout(name) ==
    /\ mcp.pc = "gathering"
    /\ name \in DOMAIN mcp.clients
    /\ mcp.clients[name].at \in {"aenter", "list_tools"}
    /\ mcp' = [mcp EXCEPT
                  !.clients[name] = [@ EXCEPT !.at = "done",
                                              !.outcome = "TimeoutError",
                                              !.timed_out = TRUE],
                  !.finished = Append(@, name)]
    /\ UNCHANGED <<mcp_tools, outside_mcp>>

\* every connection task has ended: gather returns and initialize ends
GatherReturns ==
    /\ mcp.pc = "gathering"
    /\ \A n \in DOMAIN mcp.clients : mcp.clients[n].at = "done"
    /\ mcp' = [mcp EXCEPT !.pc = "returned",
                          !.exc = gather(mcp.clients),
                          !.initialized = (gather(mcp.clients) = None)]
    /\ UNCHANGED <<mcp_tools, outside_mcp>>

\* register_tools(registry)
register_tools ==
    /\ mcp.pc \in {"idle", "returned"}
    /\ LET registered ==
               UNION {{mcp_tool_name(n, t) : t \in mcp.clients[n].tools} :
                        n \in {c \in DOMAIN mcp.clients :
                                 mcp.clients[c].status = "CONNECTED"}}
       IN /\ mcp_tools' = mcp_tools \cup registered
          /\ mcp' = [mcp EXCEPT !.count = Cardinality(registered)]
    /\ UNCHANGED outside_mcp

\* shutdown(): every client is disconnected, then forgotten
shutdown ==
    /\ mcp.pc \in {"idle", "returned"}
    /\ mcp' = [mcp EXCEPT !.clients = [n \in {} |-> NewClient],
                          !.initialized = FALSE, !.pc = "idle",
                          !.finished = <<>>]
    /\ UNCHANGED <<mcp_tools, outside_mcp>>

NextMcp ==
    \/ initialize
    \/ \E name \in ServerNames, transport_ok \in BOOLEAN :
          ConnectStarts(name, transport_ok)
    \/ \E name \in ServerNames : AwaitReturns(name)
    \/ \E name \in ServerNames : AwaitRaises(name)
    \/ \E name \in ServerNames : StartupTimeout(name)
    \/ GatherReturns
    \/ register_tools
    \/ shutdown

(***************************************************************************)
(* Specifications                                                          *)
(***************************************************************************)
NextInvoke ==
    \/ \E tool \in DiscoveredNames : register(tool)
    \/ \E tool \in McpNames : register_mcp_tool(tool)
    \/ \E name \in DiscoveredNames : unregister(name)
    \/ Invoke

\* create_default_registry registers the built-in tools and the session
\* builds its hook system from the configuration; no request is under way
InitInvoke ==
    /\ tools = BuiltinNames
    /\ mcp_tools = {}
    /\ \E config \in Configs :
          /\ hooks = HookSystemInit(config)
          /\ allowed_tools = config.allowed_tools
    /\ inv = NoInvoke
    /\ cc_pc = "idle"
    /\ stream = TRUE
    /\ attempt = 0
    /\ emitted = 0
    /\ events = <<>>
    /\ sleeps = <<>>
    /\ attempts = <<>>
    /\ sr = ResponseIdle
    /\ ag = AgentIdle
    /\ ctx = ContextEmpty
    /\ ld = DetectorEmpty
    /\ sub = SubAgentIdle
    /\ sh = ShellIdle
    /\ mcp = McpIdle

\* the tool pipeline
SpecInvoke == InitInvoke /\ [][NextInvoke]_vars

\* a client that has sent no request, beside a registry that is not called
InitClient ==
    /\ tools = BuiltinNames
    /\ mcp_tools = {}
    /\ hooks = <<>>
    /\ inv = NoInvoke
    /\ allowed_tools = {}
    /\ cc_pc = "idle"
    /\ stream = TRUE
    /\ attempt = 0
    /\ emitted = 0
    /\ events = <<>>
    /\ sleeps = <<>>
    /\ attempts = <<>>
    /\ sr = ResponseIdle
    /\ ag = AgentIdle
    /\ ctx = ContextEmpty
    /\ ld = DetectorEmpty
    /\ sub = SubAgentIdle
    /\ sh = ShellIdle
    /\ mcp = McpIdle

\* the provider client
SpecClient == InitClient /\ [][NextClient]_vars

\* no request yet: the client is about to handle its first response
InitResponse ==
    /\ tools = BuiltinNames
    /\ mcp_tools = {}
    /\ hooks = <<>>
    /\ inv = NoInvoke
    /\ allowed_tools = {}
    /\ cc_pc = "idle"
    /\ stream = TRUE
    /\ attempt = 0
    /\ emitted = 0
    /\ events = <<>>
    /\ sleeps = <<>>
    /\ attempts = <<>>
    /\ sr = ResponseIdle
    /\ ag = AgentIdle
    /\ ctx = ContextEmpty
    /\ ld = DetectorEmpty
    /\ sub = SubAgentIdle
    /\ sh = ShellIdle
    /\ mcp = McpIdle

\* the handling of one response after the other
SpecResponse == InitResponse /\ [][NextResponse]_vars

\* an agent that has not run yet
InitAgent ==
    /\ tools = BuiltinNames
    /\ mcp_tools = {}
    /\ hooks = <<>>
    /\ inv = NoInvoke
    /\ allowed_tools = {}
    /\ cc_pc = "idle"
    /\ stream = TRUE
    /\ attempt = 0
    /\ emitted = 0
    /\ events = <<>>
    /\ sleeps = <<>>
    /\ attempts = <<>>
    /\ sr = ResponseIdle
    /\ ag = AgentIdle
    /\ ctx = ContextEmpty
    /\ ld = DetectorEmpty
    /\ sub = SubAgentIdle
    /\ sh = ShellIdle
    /\ mcp = McpIdle

\* one run of the agent after the other
SpecAgent == InitAgent /\ [][NextAgent]_vars

\* a context manager right after construction
InitContext ==
    /\ tools = BuiltinNames
    /\ mcp_tools = {}
    /\ hooks = <<>>
    /\ inv = NoInvoke
    /\ allowed_tools = {}
    /\ cc_pc = "idle"
    /\ stream = TRUE
    /\ attempt = 0
    /\ emitted = 0
    /\ events = <<>>
    /\ sleeps = <<>>
    /\ attempts = <<>>
    /\ sr = ResponseIdle
    /\ ag = AgentIdle
    /\ ctx = ContextEmpty
    /\ ld = DetectorEmpty
    /\ sub = SubAgentIdle
    /\ sh = ShellIdle
    /\ mcp = McpIdle

\* the calls of one context manager
SpecContext == InitContext /\ [][NextContext]_vars

\* a loop detector right after construction
InitDetector ==
    /\ tools = BuiltinNames
    /\ mcp_tools = {}
    /\ hooks = <<>>
    /\ inv = NoInvoke
    /\ allowed_tools = {}
    /\ cc_pc = "idle"
    /\ stream = TRUE
    /\ attempt = 0
    /\ emitted = 0
    /\ events = <<>>
    /\ sleeps = <<>>
    /\ attempts = <<>>
    /\ sr = ResponseIdle
    /\ ag = AgentIdle
    /\ ctx = ContextEmpty
    /\ ld = DetectorEmpty
    /\ sub = SubAgentIdle
    /\ sh = ShellIdle
    /\ mcp = McpIdle

\* the calls of one loop detector
SpecDetector == InitDetector /\ [][NextDetector]_vars

\* a sub-agent tool that has not been executed yet
InitSubAgent ==
    /\ tools = BuiltinNames
    /\ mcp_tools = {}
    /\ hooks = <<>>
    /\ inv = NoInvoke
    /\ allowed_tools = {}
    /\ cc_pc = "idle"
    /\ stream = TRUE
    /\ attempt = 0
    /\ emitted = 0
    /\ events = <<>>
    /\ sleeps = <<>>
    /\ attempts = <<>>
    /\ sr = ResponseIdle
    /\ ag = AgentIdle
    /\ ctx = ContextEmpty
    /\ ld = DetectorEmpty
    /\ sub = SubAgentIdle
    /\ sh = ShellIdle
    /\ mcp = McpIdle

\* one execute of a sub-agent tool after the other
SpecSubAgent == InitSubAgent /\ [][NextSubAgent]_vars

\* a shell tool that has not been executed yet
InitShell ==
    /\ tools = BuiltinNames
    /\ mcp_tools = {}
    /\ hooks = <<>>
    /\ inv = NoInvoke
    /\ allowed_tools = {}
    /\ cc_pc = "idle"
    /\ stream = TRUE
    /\ attempt = 0
    /\ emitted = 0
    /\ events = <<>>
    /\ sleeps = <<>>
    /\ attempts = <<>>
    /\ sr = ResponseIdle
    /\ ag = AgentIdle
    /\ ctx = ContextEmpty
    /\ ld = DetectorEmpty
    /\ sub = SubAgentIdle
    /\ sh = ShellIdle
    /\ mcp = McpIdle

\* one execute of the shell tool after the other
SpecShell == InitShell /\ [][NextShell]_vars

\* an MCP manager right after construction, for each configuration of the
\* servers, beside a registry with the built-in tools
InitMcp ==
    /\ tools = BuiltinNames
    /\ mcp_tools = {}
    /\ hooks = <<>>
    /\ inv = NoInvoke
    /\ allowed_tools = {}
    /\ cc_pc = "idle"
    /\ stream = TRUE
    /\ attempt = 0
    /\ emitted = 0
    /\ events = <<>>
    /\ sleeps = <<>>
    /\ attempts = <<>>
    /\ sr = ResponseIdle
    /\ ag = AgentIdle
    /\ ctx = ContextEmpty
    /\ ld = DetectorEmpty
    /\ sub = SubAgentIdle
    /\ sh = ShellIdle
    /\ \E servers \in McpServers : mcp = [McpIdle EXCEPT !.servers = servers]

\* the calls of one MCP manager
SpecMcp == InitMcp /\ [][NextMcp]_vars

(***************************************************************************)
(* Properties of the tool pipeline                                         *)
(***************************************************************************)
\* the collaborator calls of the last invoke, by operation
CallsOf(op) == {i \in DOMAIN inv.calls : inv.calls[i].op = op}
Called(op) == CallsOf(op) # {}
Invoked == inv.outcome # "none"

\* the last invoke called execute and execute raised
ExecuteRaised ==
    \E i \in CallsOf("execute") : inv.calls[i].val \notin {"ok", "fail"}

\* the approval collaborator decided d in the last invoke
Decided(d) == \E i \in CallsOf("check_approval") : inv.calls[i].val = d

\* the confirmation collaborator answered b in the last invoke
Answered(b) ==
    \E i \in CallsOf("request_confirmation") : inv.calls[i].val = BoolText(b)

\* C1: every call of invoke triggers the after-tool hook exactly once before
\* it returns, with the result it returns, on every exit path.
C1_AfterHookOnEveryExit ==
    inv.outcome = "returned" =>
        /\ Cardinality(CallsOf("trigger_after_tool")) = 1
        /\ \A i \in CallsOf("trigger_after_tool") :
               inv.calls[i].result = inv.result

\* C2: invoke returns a ToolResult and raises no exception, whatever the
\* tool name, the parameters and the behaviour of the collaborators.
C2_InvokeNeverRaises ==
    Invoked => inv.outcome = "returned" /\ inv.exc = None

\* C3: when the tool's execute raises, invoke returns a failed result whose
\* error starts with "Internal error" and whose metadata carries the tool
\* name; no exception reaches the caller.
C3_ExecuteExceptionBecomesResult ==
    ExecuteRaised =>
        /\ inv.outcome = "returned"
        /\ ~inv.result.success
        /\ inv.result.error \in
               {"Internal error: " \o ExcText(e) : e \in {"ToolError", "NameError"}}
        /\ "tool_name" \in DOMAIN inv.result.metadata
        /\ inv.result.metadata.tool_name = inv.name

\* C4: when the approval collaborator decides REJECTED, invoke returns a
\* failed result with error "Operation rejected by safety policy" and the
\* tool's execute is not called.
C4_RejectedNeverExecutes ==
    Decided("REJECTED") =>
        /\ inv.outcome = "returned"
        /\ ~inv.result.success
        /\ inv.result.error = "Operation rejected by safety policy"
        /\ ~Called("execute")

\* C5: for a mutating tool, when the decision is NEEDS_CONFIRMATION and the
\* confirmation collaborator answers false, invoke returns a failed result
\* with error "User rejected the operation" without calling execute.
C5_UserRejectionNeverExecutes ==
    (/\ inv.name \in ToolNames
     /\ is_mutating(inv.name)
     /\ Decided("NEEDS_CONFIRMATION")
     /\ Answered(FALSE)) =>
        /\ inv.outcome = "returned"
        /\ ~inv.result.success
        /\ inv.result.error = "User rejected the operation"
        /\ ~Called("execute")

\* C6: invoke with a name registered neither as a built-in nor as an MCP
\* tool returns a failed result whose error is "Unknown tool: <name>", and
\* no tool is validated, approved or executed.
C6_UnknownToolResult ==
    (Invoked /\ \E i \in CallsOf("get") : inv.calls[i].val = None) =>
        /\ inv.outcome = "returned"
        /\ ~inv.result.success
        /\ inv.result.error = "Unknown tool: " \o inv.name
        /\ ~Called("validate_params")
        /\ ~Called("check_approval")
        /\ ~Called("execute")

\* C7: when the parameters violate the tool's declared schema, invoke
\* returns a failed result (never an exception) whose error lists every
\* field-level validation message, and execute is not called.
C7_InvalidParamsResult ==
    (Called("validate_params") /\ inv.params # <<>>) =>
        /\ inv.outcome = "returned"
        /\ ~inv.result.success
        /\ inv.result.error =
             "Invalid parameters: " \o
             Join("; ", [i \in 1..Len(inv.params) |->
                           "Parameter '" \o inv.params[i].loc \o "': "
                               \o inv.params[i].msg])
        /\ ~Called("execute")

(***************************************************************************)
(* Properties of the provider client                                       *)
(***************************************************************************)
ErrorEvents == {i \in DOMAIN events : events[i].type = "ERROR"}

\* every attempt of the call that has ended failed with a transient error
OnlyTransientFailures ==
    \A i \in DOMAIN attempts : attempts[i].exc \in Transient

\* C8: with max_retries = 3, when every attempt fails with a rate-limit or
\* connection error, the client makes exactly 4 attempts, sleeps 1, 2 and 4
\* seconds before the retries, and yields exactly one Error event, which is
\* the last event of the call. Until the last attempt has failed no Error
\* event is yielded and the sleeps so far are a prefix of 1, 2, 4.
C8_TransientRetries ==
    (cc_pc # "idle" /\ OnlyTransientFailures) =>
        /\ Len(attempts) <= 4
        /\ sleeps = SubSeq(<<1, 2, 4>>, 1, Len(sleeps))
        /\ cc_pc = "attempt" =>
              /\ Len(sleeps) = Len(attempts)
              /\ attempt = Len(attempts)
              /\ ErrorEvents = {}
        /\ cc_pc = "done" =>
              /\ Len(attempts) = 4
              /\ sleeps = <<1, 2, 4>>
              /\ Cardinality(ErrorEvents) = 1
              /\ events # <<>>
              /\ events[Len(events)].type = "ERROR"
        /\ cc_pc # "raised"

\* a call whose four attempts all failed with transient errors of both
\* classes, one of them after it had yielded events
C8_Witness ==
    /\ cc_pc = "done"
    /\ Len(attempts) = 4
    /\ OnlyTransientFailures
    /\ \E i, j \in DOMAIN attempts :
          attempts[i].exc = "RateLimitError" /\ attempts[j].exc = "APIConnectionError"
    /\ Len(events) > 1

\* C9: when an attempt fails with a provider error that is neither
\* rate-limit nor connection failure, the client yields exactly one Error
\* event and ends the call at once: no further attempt, no further event.
C9_FatalErrorEndsCall ==
    \A i \in DOMAIN attempts :
        attempts[i].exc = "APIError" =>
            /\ i = Len(attempts)
            /\ cc_pc = "done"
            /\ Cardinality(ErrorEvents) = 1
            /\ events[Len(events)].type = "ERROR"

\* C10: a partial success is never retried: once an attempt has yielded an
\* event and then fails with a transient error, no new attempt is started.
C10_NoRetryOfPartialSuccess ==
    \A i \in DOMAIN attempts :
        (attempts[i].emitted > 0 /\ attempts[i].exc \in Transient) =>
            /\ i = Len(attempts)
            /\ cc_pc # "attempt"

(***************************************************************************)
(* Properties of the handling of one response                              *)
(***************************************************************************)
\* the tool-call indices of the model
Indices == {0, 1}

RECURSIVE Flatten(_)
\* the tool-call fragments of a sequence of chunks, in arrival order
Flatten(cs) ==
    IF cs = <<>> THEN <<>>
    ELSE (IF Head(cs).has_choice THEN Head(cs).tool_calls ELSE <<>>)
         \o Flatten(Tail(cs))

\* the chunks of the response that were handled without an exception
Handled == IF sr.pc = "raised" /\ sr.exc = "AttributeError"
           THEN SubSeq(sr.chunks, 1, Len(sr.chunks) - 1)
           ELSE sr.chunks

RECURSIVE Concat(_)
\* the argument strings of a sequence of fragments, joined in order
Concat(ds) ==
    IF ds = <<>> THEN ""
    ELSE (IF Truthy(Head(ds).arguments) THEN Head(ds).arguments ELSE "")
         \o Concat(Tail(ds))

\* the fragments of one index, in arrival order
FragmentsOf(idx) == SelectSeq(Flatten(Handled), LAMBDA d : d.index = idx)

\* the indices that some fragment of the response carried
IndicesSeen == {idx \in Indices : FragmentsOf(idx) # <<>>}

\* the positions of the events of a type, and of those yielded for an index
EventsOfType(type) == {i \in DOMAIN sr.events : sr.events[i].type = type}
EventsFor(type, idx) == {i \in EventsOfType(type) : sr.origin[i].index = idx}

\* the response was streamed and its chunk stream ended without failure
StreamEnded == sr.mode = "stream" /\ sr.pc = "done"

\* C11: for every tool-call index of a streamed response, the argument
\* string finalized for that index (the buffer of the index, and the
\* arguments of its ToolCallComplete) equals the concatenation, in arrival
\* order, of the argument fragments of that index, however the fragments of
\* different indices interleave.
C11_ArgumentsConcatenated ==
    /\ \A k \in DOMAIN sr.tool_calls :
          sr.tool_calls[k].arguments = Concat(FragmentsOf(sr.tool_calls[k].idx))
    /\ StreamEnded =>
          \A idx \in IndicesSeen :
             /\ EventsFor("TOOL_CALL_COMPLETE", idx) # {}
             /\ \A i \in EventsFor("TOOL_CALL_COMPLETE", idx) :
                   sr.events[i].arguments = Concat(FragmentsOf(idx))

\* the fragments "a" and "b" of index 0 arrived with a fragment of index 1
\* between them, and the stream has ended
C11_Witness ==
    /\ StreamEnded
    /\ \E i, j, k \in EventsOfType("TOOL_CALL_DELTA") :
          /\ i < j /\ j < k
          /\ sr.origin[i].index = 0 /\ sr.events[i].arguments = "a"
          /\ sr.origin[j].index = 1
          /\ sr.origin[k].index = 0 /\ sr.events[k].arguments = "b"
    /\ \E i \in EventsFor("TOOL_CALL_COMPLETE", 0) :
          sr.events[i].arguments = "ab"

\* the number of the first chunk that carries a fragment of the index
FirstChunkOf(idx) ==
    CHOOSE n \in DOMAIN sr.chunks :
        /\ \E i \in DOMAIN sr.chunks[n].tool_calls :
              sr.chunks[n].tool_calls[i].index = idx
        /\ \A m \in 1..(n - 1) :
              \A i \in DOMAIN sr.chunks[m].tool_calls :
                 sr.chunks[m].tool_calls[i].index # idx

\* the call ids that the fragments of the index carried
IdsOf(idx) ==
    {FragmentsOf(idx)[i].id : i \in DOMAIN FragmentsOf(idx)} \ {None, ""}

\* C12: for every tool-call index seen in a streamed response exactly one
\* ToolCallStart is emitted, at the first chunk that carries the index and
\* before any ToolCallDelta of the index, and it carries the call id of
\* that tool call.
C12_OneStartAtFirstSight ==
    sr.mode = "stream" =>
       \A idx \in IndicesSeen :
          /\ Cardinality(EventsFor("TOOL_CALL_START", idx)) = 1
          /\ \A s \in EventsFor("TOOL_CALL_START", idx) :
                /\ sr.origin[s].at = FirstChunkOf(idx)
                /\ \A d \in EventsFor("TOOL_CALL_DELTA", idx) : s < d
                /\ IdsOf(idx) # {} => sr.events[s].call_id \in IdsOf(idx)

\* C13: in a streamed response that ends without failure, after the last
\* chunk exactly one ToolCallComplete is emitted per accumulated tool-call
\* index, then exactly one MessageComplete, which is the last event; no
\* ToolCallComplete (and no MessageComplete) is emitted before the chunk
\* stream has ended.
C13_CompletesThenMessageComplete ==
    /\ sr.mode = "stream" /\ sr.pc # "done" =>
          /\ EventsOfType("TOOL_CALL_COMPLETE") = {}
          /\ EventsOfType("MESSAGE_COPLETE") = {}
    /\ StreamEnded =>
          LET n == Len(sr.events)
              m == Cardinality(IndicesSeen)
          IN /\ n > m
             /\ EventsOfType("MESSAGE_COPLETE") = {n}
             /\ EventsOfType("TOOL_CALL_COMPLETE") = (n - m)..(n - 1)
             /\ \A idx \in IndicesSeen :
                   Cardinality(EventsFor("TOOL_CALL_COMPLETE", idx)) = 1
             /\ \A i \in 1..(n - m - 1) : sr.origin[i].at \in DOMAIN sr.chunks

\* a stream of three chunks with both indices has ended: index 1 was never
\* given a name
C13_Witness ==
    /\ StreamEnded
    /\ Len(sr.chunks) = MaxChunks
    /\ IndicesSeen = Indices
    /\ \E i \in EventsFor("TOOL_CALL_COMPLETE", 1) : sr.events[i].name = ""
    /\ sr.events[Len(sr.events)].type = "MESSAGE_COPLETE"

\* the usage of the last chunk that had one, None if no chunk had
LastUsage ==
    LET with == {n \in DOMAIN sr.chunks : Truthy(sr.chunks[n].usage)}
    IN IF with = {} THEN None
       ELSE sr.chunks[CHOOSE n \in with : \A m \in with : m <= n].usage

\* the finish reason of the last chunk that had one, None if no chunk had
LastFinishReason ==
    LET with == {n \in DOMAIN sr.chunks :
                    sr.chunks[n].has_choice /\ Truthy(sr.chunks[n].finish_reason)}
    IN IF with = {} THEN None
       ELSE sr.chunks[CHOOSE n \in with : \A m \in with : m <= n].finish_reason

\* C14: the MessageComplete event of a streamed response carries the finish
\* reason and the usage snapshot of the last chunk that had one: a later
\* chunk without usage does not overwrite it, and when no chunk carries
\* usage the usage of the event is None.
C14_LastSeenFinishAndUsage ==
    StreamEnded =>
       /\ sr.events[Len(sr.events)].finish_reason = LastFinishReason
       /\ sr.events[Len(sr.events)].usage = LastUsage

\* C15: chat_completion with stream = false yields for a reply the same
\* event shape as streaming mode: the text of the reply, one
\* ToolCallComplete per tool call of the reply, and one terminal
\* MessageComplete, without raising.
C15_NonStreamSameShape ==
    sr.mode = "non_stream" =>
       /\ sr.pc = "done"
       /\ Truthy(sr.reply.content) =>
             \E i \in DOMAIN sr.events : sr.events[i].content = sr.reply.content
       /\ Cardinality(EventsOfType("TOOL_CALL_COMPLETE")) = sr.reply.tool_calls
       /\ EventsOfType("MESSAGE_COPLETE") = {Len(sr.events)}

(***************************************************************************)
(* Properties of the agent loop                                            *)
(***************************************************************************)
\* the positions of the agent events of a type, and of the stream events
\* of a type that the loop took
AgentEventsOfType(type) == {i \in DOMAIN ag.events : ag.events[i].type = type}
ConsumedOfType(type) == {i \in DOMAIN ag.consumed : ag.consumed[i].type = type}

\* the stream of the request has ended and _agentic_loop has returned
TurnEnded ==
    \/ ag.pc = "done"
    \/ ag.pc = "raised" /\ ag.exc = "UnboundLocalError"

RECURSIVE ConcatData(_)
\* the data of a sequence of agent events, joined in order
ConcatData(evs) ==
    IF evs = <<>> THEN "" ELSE Head(evs).data \o ConcatData(Tail(evs))

\* the contents of the TextDelta events of the run, joined in emission order
DeltaText == ConcatData(SelectSeq(ag.events, LAMBDA e : e.type = "text_delta"))

\* C16: every run whose client stream ends emits exactly one Start event as
\* its first event and exactly one End event as its last event, also when
\* the model produces no text or the adapter reports an error; End carries
\* the final text, or None when there is none.
C16_StartFirstEndLast ==
    ag.pc \in {"done", "raised"} /\ ag.exc \notin {"TypeError", "ClientError"} =>
       /\ ag.pc = "done"
       /\ AgentEventsOfType("agent_start") = {1}
       /\ AgentEventsOfType("agent_end") = {Len(ag.events)}
       /\ ag.events[Len(ag.events)].data =
             (IF DeltaText = "" THEN None ELSE DeltaText)

\* C17: when the agent loop receives a stream Error event it emits one agent
\* Error event and stops the turn: it takes no further stream event of the
\* request, and no TextDelta or TextComplete is emitted after the Error.
C17_ErrorStopsTurn ==
    /\ Cardinality(AgentEventsOfType("agent_error")) =
          Cardinality(ConsumedOfType("ERROR"))
    /\ \A i \in ConsumedOfType("ERROR") : i = Len(ag.consumed)
    /\ \A i \in AgentEventsOfType("agent_error") :
          \A j \in AgentEventsOfType("text_delta")
                   \cup AgentEventsOfType("text_complete") : j < i

\* C18: in a turn of the agent loop TextComplete is emitted iff the
\* accumulated text is non-empty, at most once, after every TextDelta of
\* the turn, and its content equals the concatenation of the TextDelta
\* contents in emission order.
C18_TextCompleteIsConcatenation ==
    /\ ag.response_text = DeltaText
    /\ Cardinality(AgentEventsOfType("text_complete")) <= 1
    /\ \A i \in AgentEventsOfType("text_complete") :
          /\ ag.events[i].data = DeltaText
          /\ \A j \in AgentEventsOfType("text_delta") : j < i
    /\ ag.pc = "stream" => AgentEventsOfType("text_complete") = {}
    /\ TurnEnded => (AgentEventsOfType("text_complete") # {} <=> DeltaText # "")

\* a turn with the deltas "a" and "b" has ended with TextComplete "ab"
C18_Witness ==
    /\ ag.pc = "done"
    /\ \E i, j \in AgentEventsOfType("text_delta") :
          i < j /\ ag.events[i].data = "a" /\ ag.events[j].data = "b"
    /\ \E i \in AgentEventsOfType("text_complete") : ag.events[i].data = "ab"

\* C19: for each ToolCallComplete stream event the agent loop invokes the
\* tool pipeline once, appends the result to the context and requests a
\* follow-up completion, and the caller observes the tool call: an ended
\* turn has made one request more than it took ToolCallComplete events, and
\* has passed each ToolCallStart and ToolCallComplete on to the caller
\* between Start and End.
C19_ToolCallsAreRun ==
    TurnEnded =>
       /\ ag.requests = 1 + Cardinality(ConsumedOfType("TOOL_CALL_COMPLETE"))
       /\ Cardinality(AgentEventsOfType("tool_call_start")) =
             Cardinality(ConsumedOfType("TOOL_CALL_START"))
       /\ Cardinality(AgentEventsOfType("tool_call_complete")) =
             Cardinality(ConsumedOfType("TOOL_CALL_COMPLETE"))
       /\ AgentEventsOfType("agent_end") = {Len(ag.events)}

\* the request was answered with tool calls only: no text and no error
OnlyToolCalls ==
    /\ ConsumedOfType("TOOL_CALL_COMPLETE") # {}
    /\ ConsumedOfType("TEXT_DELTA") = {}
    /\ ConsumedOfType("ERROR") = {}

\* C20: a run in which the model keeps issuing tool calls terminates with a
\* synthetic Error event followed by End (turn limit reached or loop
\* reported by the detector), and issues no further model request: a run
\* that has stopped after requests answered with tool calls only ends with
\* Error, End.
C20_ToolCallRunEndsWithError ==
    ag.pc \in {"done", "raised"} /\ OnlyToolCalls /\ ag.exc # "ClientError" =>
       /\ ag.pc = "done"
       /\ Len(ag.events) >= 3
       /\ ag.events[Len(ag.events) - 1].type = "agent_error"
       /\ ag.events[Len(ag.events)].type = "agent_end"

(***************************************************************************)
(* Properties of the context manager                                       *)
(***************************************************************************)
\* the step is a call of prune_tool_outputs
PruneStep == ctx'.op = "prune_tool_outputs" /\ ctx' # ctx

\* the tool-result entries of a log that are not pruned
UnprunedToolResults(m) ==
    {i \in DOMAIN m : m[i].role = "tool" /\ m[i].pruned_at = 0}

RECURSIVE TokensOf(_, _)
\* the sum of the token counts of the entries at the positions S
TokensOf(m, S) ==
    IF S = {} THEN 0
    ELSE LET i == CHOOSE j \in S : TRUE
         IN m[i].token_count + TokensOf(m, S \ {i})

\* the token sum of the unpruned tool results from the newest down to i
RunningSum(m, i) == TokensOf(m, {j \in UnprunedToolResults(m) : j >= i})

\* the unpruned tool results at or after (scanning newest-first) the entry
\* where the running sum first exceeds the protect threshold
Candidates(m) ==
    {i \in UnprunedToolResults(m) : RunningSum(m, i) > PRUNE_PROTECT_TOKENS}

\* C21: get_messages returns, in every reachable state, a list that begins
\* with exactly one system message holding the rendered system prompt,
\* followed by the stored log verbatim in insertion order; the stored log
\* itself never holds a system message.
C21_SystemMessageFirst ==
    LET r == get_messages(ctx.system_prompt, ctx.messages)
    IN /\ Len(r) = Len(ctx.messages) + 1
       /\ r[1].role = "system" /\ r[1].content = SystemPrompt
       /\ \A i \in DOMAIN ctx.messages :
             /\ ctx.messages[i].role # "system"
             /\ r[i + 1].role = ctx.messages[i].role
             /\ r[i + 1].content = ctx.messages[i].content
             /\ r[i + 1].tool_calls = ctx.messages[i].tool_calls
             /\ ctx.messages[i].tool_call_id # "" =>
                   r[i + 1].tool_call_id = ctx.messages[i].tool_call_id
       /\ ctx.op = "get_messages" => ctx.rendered = r

\* get_messages has returned the rendering of a log with a pruned entry
C21_Witness ==
    /\ ctx.op = "get_messages"
    /\ Len(ctx.rendered) = MaxMessages + 1
    /\ \E i \in DOMAIN ctx.messages : ctx.messages[i].pruned_at # 0

\* C22: after any sequence of add_user_message, add_assistant_message,
\* add_tool_result and prune_tool_outputs the stored log holds exactly the
\* inserted entries in insertion order: pruning adds, removes and reorders
\* nothing and changes only content, token_count and pruned_at of
\* tool-result entries.
C22_LogIsInsertionOrder ==
    /\ Len(ctx.messages) = Len(ctx.inserted)
    /\ \A i \in DOMAIN ctx.messages :
          /\ ctx.messages[i].role = ctx.inserted[i].role
          /\ ctx.messages[i].tool_call_id = ctx.inserted[i].tool_call_id
          /\ ctx.messages[i].tool_calls = ctx.inserted[i].tool_calls
          /\ ctx.messages[i].role # "tool" => ctx.messages[i] = ctx.inserted[i]

\* a log of different entries, one of them pruned, after a pruning call
C22_Witness ==
    /\ ctx.op = "prune_tool_outputs"
    /\ ctx.ret > 0
    /\ Len(ctx.messages) = MaxMessages
    /\ ctx.messages[1].role = "user"
    /\ ctx.messages[2].role = "tool" /\ ctx.messages[2].content = Placeholder
    /\ ctx.inserted[2].content = "out45k"
    /\ ctx.messages[3].role = "user"
    /\ ctx.messages[4].role = "tool" /\ ctx.messages[4].content = "out35k"

\* C23: prune_tool_outputs returns 0 and changes no entry of the log
\* whenever the log holds fewer than 2 user messages, or whenever the total
\* token count of the pruning candidates is below 20,000.
C23_NoPruneBelowThresholds ==
    [][ PruneStep
        /\ \/ user_message_count(ctx.messages) < 2
           \/ TokensOf(ctx.messages, Candidates(ctx.messages)) < PRUNE_MINIMUM_TOKENS
        => ctx'.ret = 0 /\ ctx'.messages = ctx.messages ]_vars

\* a call has returned 0 for a log with 2 user messages whose only
\* candidate is an output of 10,000 tokens
C23_Witness ==
    /\ ctx.op = "prune_tool_outputs"
    /\ ctx.ret = 0
    /\ user_message_count(ctx.messages) = 2
    /\ Candidates(ctx.messages) # {}
    /\ \A i \in Candidates(ctx.messages) : ctx.messages[i].content = "out10k"

\* C24: prune_tool_outputs is idempotent: a second call made right after a
\* first call returns 0 and changes no entry.
C24_PruneIdempotent ==
    [][ ctx.op = "prune_tool_outputs" /\ ctx'.op = "prune_tool_outputs"
        => ctx'.ret = 0 /\ ctx'.messages = ctx.messages ]_vars

\* a second call in a row has returned for a log that the first call pruned
C24_Witness ==
    /\ ctx.op = "prune_tool_outputs"
    /\ ctx.again
    /\ \E i \in DOMAIN ctx.messages : ctx.messages[i].pruned_at # 0
    /\ \E i \in DOMAIN ctx.messages :
          ctx.messages[i].role = "tool" /\ ctx.messages[i].pruned_at = 0

\* C25: when prune_tool_outputs prunes, its candidates are exactly the
\* unpruned tool-result entries that, scanning newest-first, lie at or
\* after the entry where the running token sum first exceeds 40,000: each
\* candidate gets the placeholder content, a recomputed token count and a
\* prune timestamp, every other entry is kept as it is, and the returned
\* number is the count of candidates.
C25_CandidatesArePruned ==
    [][ PruneStep /\ ctx'.ret > 0
        => /\ ctx'.ret = Cardinality(Candidates(ctx.messages))
           /\ Len(ctx'.messages) = Len(ctx.messages)
           /\ \A i \in DOMAIN ctx.messages :
                 IF i \in Candidates(ctx.messages)
                 THEN /\ ctx'.messages[i].content = Placeholder
                      /\ ctx'.messages[i].token_count = count_tokens(Placeholder)
                      /\ ctx'.messages[i].pruned_at # 0
                 ELSE ctx'.messages[i] = ctx.messages[i] ]_vars

\* C26: replace_with_summary(summary) leaves the log, whatever it held
\* before, with exactly three entries with roles user, assistant, user in
\* this order, the first embedding the summary, so that the log does not
\* end on an assistant entry after compaction.
C26_SummaryReplacesLog ==
    ctx.op = "replace_with_summary" =>
       /\ Len(ctx.messages) = 3
       /\ ctx.messages[1].role = "user"
       /\ ctx.messages[2].role = "assistant"
       /\ ctx.messages[3].role = "user"
       /\ \E pre, post \in {"# Context Restoration (Previous Session Compacted) --- ",
                            " --- Resume work from where we left off."} :
             ctx.messages[1].content = pre \o ctx.summary \o post

\* a log has been replaced by the entries for the summary "s2", right after
\* an earlier compaction
C26_Witness ==
    /\ ctx.op = "replace_with_summary"
    /\ ctx.again
    /\ ctx.summary = "s2"
    /\ ctx.messages[Len(ctx.messages)].role = "user"

(***************************************************************************)
(* Properties of the loop detector                                         *)
(***************************************************************************)
\* the last n signatures of the history are all the same
LastSame(n) ==
    /\ Len(ld.history) >= n
    /\ \A i \in (Len(ld.history) - n + 1)..Len(ld.history) :
          ld.history[i] = ld.history[Len(ld.history)]

\* the last n signatures equal the n signatures right before them
LastRepeats(n) ==
    /\ Len(ld.history) >= 2 * n
    /\ \A i \in (Len(ld.history) - n + 1)..Len(ld.history) :
          ld.history[i] = ld.history[i - n]

\* C27: whenever the 3 most recently recorded signatures are identical,
\* check_for_loop reports a same-action repetition.
C27_ExactRepeatReported ==
    ld.checked /\ LastSame(3) =>
       /\ ld.exc = None
       /\ ld.report = "Same action repeated 3 times"

\* check_for_loop has returned for a full history whose last three
\* signatures are the same and differ from the one before them
C27_Witness ==
    /\ ld.checked
    /\ Len(ld.history) = MaxRecorded
    /\ LastSame(3)
    /\ ~LastSame(4)
    /\ ld.report # None

\* C28: for each cycle length L in 2..3, whenever the history holds at
\* least 2L signatures and its last L signatures equal the L signatures
\* right before them (and the exact-repeat rule does not fire),
\* check_for_loop reports a repeating cycle of length L.
C28_CycleReported ==
    \A L \in 2..3 :
       ld.checked /\ LastRepeats(L) /\ ~LastSame(3) =>
          /\ ld.exc = None
          /\ ld.report = "Detected repeating cycle of length " \o ToString(L)

(***************************************************************************)
(* Properties of the sub-agent tool                                        *)
(***************************************************************************)
\* execute has returned for a call with a goal
SubAgentReturned == sub.pc = "returned" /\ sub.goal # ""

\* the nested run has reported an error: it raised, it could not be
\* started, or it yielded an Error event
NestedFailed ==
    \/ sub.loop \in {"raised", "not_started"}
    \/ \E i \in DOMAIN sub.consumed : sub.consumed[i].type = "agent_error"

\* the names of the tools that the nested run reported, in order
NestedToolNames ==
    LET starts == SelectSeq(sub.consumed, LAMBDA e : e.type = "tool_call_start")
    IN [i \in 1..Len(starts) |-> starts[i].data]

\* C29: an execute that returns while the nested run has neither completed
\* nor failed returns because the deadline has passed: its result states
\* the termination reason "timeout" and is a success result, and execute
\* takes no further event of the nested run.
C29_TimeoutResult ==
    /\ SubAgentReturned /\ sub.loop = "running" /\ ~NestedFailed =>
          /\ sub.expired
          /\ sub.result = success_result(
                 result_text(sub.name, "timeout", NestedToolNames,
                             "Subagent timed out"))
    /\ sub.pc = "returned" => ~ENABLED (\E event \in NestedEvents : NestedYields(event))

\* C30: execute always returns exactly one ToolResult that states the
\* termination reason (goal, timeout or error), the tool names the
\* sub-agent invoked in invocation order and its final text or a fallback
\* string; the reason is "error", and the result an error result, exactly
\* when the nested run raised or yielded an Error; nothing propagates.
C30_OneSummarizingResult ==
    SubAgentReturned =>
       /\ sub.result.success = ~NestedFailed
       /\ sub.st.terminate_response =
             (IF NestedFailed THEN "error"
              ELSE IF sub.loop = "ended" THEN "goal" ELSE "timeout")
       /\ LET text == result_text(sub.name, sub.st.terminate_response,
                                  NestedToolNames, sub.st.final_response)
          IN IF sub.result.success THEN sub.result.output = text
             ELSE sub.result.error = text

C37_RequestCarriesUserMessage ==
    ag.requests > 0 =>
        \E i \in DOMAIN ag.sent :
            ag.sent[i] = [role |-> "user", content |-> ag.message]

\* entry i of the log is a tool result with a tool_call_id
IsToolResult(i) ==
    ctx.messages[i].role = "tool" /\ Truthy(ctx.messages[i].tool_call_id)

\* C38: in every state of the log, every tool-result entry with a
\* tool_call_id that is older than a pruned tool-result entry is itself
\* pruned.
C38_PrunedAreTheOldest ==
    \A i, j \in DOMAIN ctx.messages :
        ( /\ i < j
          /\ IsToolResult(i)
          /\ IsToolResult(j)
          /\ ctx.messages[j].pruned_at # 0 )
        => ctx.messages[i].pruned_at # 0

\* a pruning has cleared two tool results, one older than the other
C38_Witness ==
    /\ ctx.op = "prune_tool_outputs"
    /\ ctx.ret = 2
    /\ \E i, j \in DOMAIN ctx.messages :
          /\ i < j
          /\ IsToolResult(i) /\ ctx.messages[i].pruned_at # 0
          /\ IsToolResult(j) /\ ctx.messages[j].pruned_at # 0

\* C39: check_for_loop is total and read-only: for every history that
\* record_action can build it returns None or a report without raising,
\* and it leaves the history unchanged.
C39_CheckIsTotalAndReadOnly ==
    [][CheckForLoop => /\ ld'.exc = None
                       /\ ld'.history = ld.history]_vars

(***************************************************************************)
(* Further properties of the tool pipeline                                 *)
(***************************************************************************)
\* every call of a in the last invoke comes before every call of b
CalledBefore(a, b) ==
    \A i \in CallsOf(a), j \in CallsOf(b) : i < j

\* C34: in every invoke that reaches execution the steps occur in the order
\* name resolution, parameter validation, before-tool hook, approval check,
\* execute, after-tool hook; the before-tool hook fires at most once in an
\* invoke and never for an unknown tool or for invalid parameters.
C34_StepsInOrder ==
    /\ Called("execute") =>
          /\ \A op \in {"get", "validate_params", "trigger_before_tool",
                         "execute", "trigger_after_tool"} :
                 Cardinality(CallsOf(op)) = 1
          /\ CalledBefore("get", "validate_params")
          /\ CalledBefore("validate_params", "trigger_before_tool")
          /\ CalledBefore("trigger_before_tool", "check_approval")
          /\ CalledBefore("trigger_before_tool", "execute")
          /\ CalledBefore("check_approval", "execute")
          /\ CalledBefore("execute", "trigger_after_tool")
    /\ Cardinality(CallsOf("trigger_before_tool")) <= 1
    /\ ( \/ \E i \in CallsOf("get") : inv.calls[i].val = None
         \/ \E i \in CallsOf("validate_params") : inv.calls[i].val # "" )
       => ~Called("trigger_before_tool")

\* the tool of the last invoke produces a confirmation: the one it gave
\* when it was asked, else the one it gives whenever it is asked
ProducesConfirmation ==
    IF Called("get_confirmation")
    THEN \E i \in CallsOf("get_confirmation") :
            inv.calls[i].val \in {"bare", "full"}
    ELSE /\ inv.name \in ToolNames
         /\ \A custom \in CustomConfirmations :
                get_confirmation(inv.name, custom) \in {"bare", "full"}

\* C35: whenever invoke executes a mutating tool that produces a
\* confirmation, check_approval was called earlier in the same invoke and
\* did not return REJECTED.
C35_ApprovalBeforeMutation ==
    ( /\ Called("execute")
      /\ is_mutating(inv.name)
      /\ ProducesConfirmation )
    => \E i \in CallsOf("check_approval") :
          /\ inv.calls[i].val # "REJECTED"
          /\ \A j \in CallsOf("execute") : i < j

\* C36: when config.allowed_tools is set, invoke never executes a tool
\* whose name is outside that set.
C36_InvokeRespectsAllowedTools ==
    allowed_tools # {} /\ Called("execute") => inv.name \in allowed_tools

(***************************************************************************)
(* Properties of the shell tool                                            *)
(***************************************************************************)
\* C32: when a shell command exceeds its timeout, execute force-kills the
\* whole process group of the command and then returns a failed result that
\* reports the timeout.
C32_TimeoutKillsGroup ==
    sh.timed_out =>
        /\ sh.pc = "returned"
        /\ sh.alive = {}
        /\ ~sh.result.success
        /\ sh.result.error = "Command timed out after " \o ToString(sh.timeout)

(***************************************************************************)
(* Properties of the MCP manager                                           *)
(***************************************************************************)
\* initialize has returned after waiting for the connection tasks
Gathered == mcp.pc = "returned" /\ mcp.finished # <<>>

\* the servers that the configuration enables
EnabledServers == {n \in DOMAIN mcp.servers : mcp.servers[n]}

\* C33: initialize connects every enabled server, each under its own
\* startup timeout; the failure or the timeout of one connection neither
\* cancels another connection nor raises out of initialize, and the servers
\* that connected are usable afterwards.
C33_ConnectionsAreIsolated ==
    Gathered =>
        /\ mcp.exc = None
        /\ mcp.initialized
        /\ DOMAIN mcp.clients = EnabledServers
        /\ \A n \in DOMAIN mcp.clients :
              LET c == mcp.clients[n]
              IN /\ c.at = "done"
                 /\ c.outcome = "TimeoutError" <=> c.timed_out
                 /\ c.outcome = "ok" =>
                       usable(c) /\ c.tools = ServerTools(n)

\* the connection to fs was cut off by its timeout, and the connection to
\* web went on, connected after that and is usable
C33_Witness ==
    /\ Gathered
    /\ mcp.finished = <<"fs", "web">>
    /\ mcp.clients["fs"].outcome = "TimeoutError"
    /\ mcp.clients["web"].outcome = "ok"
    /\ usable(mcp.clients["web"])
    /\ mcp.exc = None

\* the names of the tools of the clients that are connected
ConnectedToolNames ==
    UNION {{mcp_tool_name(n, t) : t \in mcp.clients[n].tools} :
             n \in {c \in DOMAIN mcp.clients :
                      mcp.clients[c].status = "CONNECTED"}}

\* C40: after initialize returns, the status of every enabled server's
\* client is CONNECTED or ERROR, never CONNECTING, also when the startup
\* timeout cut the connection off; register_tools registers tools of
\* CONNECTED clients only.
C40_NoClientLeftConnecting ==
    [][ /\ GatherReturns =>
              \A n \in DOMAIN mcp'.clients :
                  mcp'.clients[n].status \in {"CONNECTED", "ERROR"}
        /\ register_tools =>
              (mcp_tools' \ mcp_tools) \subseteq ConnectedToolNames ]_vars

====
